---- MODULE Spec2Model ----
(***************************************************************************)
(* EMA (src/EMA.py): the bounded-memory usage-pattern tracker.  A block is *)
(* a comma-separated string of tool names; it is represented here by the   *)
(* list of its comma-separated fields (what block.split(',') returns),     *)
(* each field being the sequence of its characters, so that strip() and    *)
(* the blank-field filter are computed and not assumed.                    *)
(***************************************************************************)
EXTENDS Integers, Sequences, FiniteSets, TLC

VARIABLES k, t, nr, nf, ns,
          name_to_number, number_to_name, next_number,
          recent_blocks, frequency_table, all_blocks, current_block_index,
          recent_subsequences, recent_single_tools,
          directory,
          call, ret, raised,
          threads

vars == <<k, t, nr, nf, ns, name_to_number, number_to_name, next_number,
          recent_blocks, frequency_table, all_blocks, current_block_index,
          recent_subsequences, recent_single_tools, directory, call, ret,
          raised, threads>>

params == <<k, t, nr, nf, ns>>

containers == <<name_to_number, number_to_name, next_number, recent_blocks,
                frequency_table, all_blocks, current_block_index,
                recent_subsequences, recent_single_tools>>

----------------------------------------------------------------------------
(* Bounds of the model.                                                    *)

\* Total number of comma-separated fields over the blocks of a run of Spec
\* (add_block and the picks).
MaxFields == 3

\* The same for a run of SpecHistory (add_block alone).
MaxHistoryFields == 4

\* The requested number of items n of a pick ranges over 0..MaxN.
MaxN == 2

\* Number of blocks of a run of SpecExample, and the largest n it asks for.
MaxExampleBlocks == 3
MaxExampleN == 3

\* The fields a block is made of: a blank one, a bare name, a name padded
\* on the left and one padded on the right.
RawFields == { <<" ">>, <<"a">>, <<" ", "b">>, <<"c", " ">> }

\* The blocks "A, B, C", "A, B" and "A, C" of the worked example.
BlockABC == << <<"A">>, <<" ", "B">>, <<" ", "C">> >>
BlockAB  == << <<"A">>, <<" ", "B">> >>
BlockAC  == << <<"A">>, <<" ", "C">> >>

\* The blocks of a run of SpecExample: those three, "B,C" and "C".
ExampleBlocks == { BlockABC, BlockAB, BlockAC, << <<"B">>, <<"C">> >>, << <<"C">> >> }

\* The defaults of the constructor's arguments.
DefaultConfig == [k |-> 10, t |-> 50, nr |-> 2, nf |-> 5, ns |-> 5]

\* The constructor arguments (k, t, nr, nf, ns) an instance is built with.
Configs == { [k |-> 1,  t |-> 0,  nr |-> 1, nf |-> 1, ns |-> 1],
             [k |-> 2,  t |-> 1,  nr |-> 2, nf |-> 2, ns |-> 1],
             [k |-> 2,  t |-> 3,  nr |-> 2, nf |-> 2, ns |-> 2],
             DefaultConfig }

Min(x, y) == IF x <= y THEN x ELSE y
Max(x, y) == IF x >= y THEN x ELSE y

----------------------------------------------------------------------------
(* Strings, tuples and containers of the Python runtime.                  *)

\* str.strip(): drop the leading and the trailing blanks of a field.
RECURSIVE LStrip(_)
LStrip(s) == IF s # <<>> /\ Head(s) = " " THEN LStrip(Tail(s)) ELSE s

RECURSIVE RStrip(_)
RStrip(s) ==
    IF s # <<>> /\ s[Len(s)] = " " THEN RStrip(SubSeq(s, 1, Len(s) - 1)) ELSE s

Strip(s) == RStrip(LStrip(s))

\* Mutant: the blank fields are kept as names.
RECURSIVE tool_names_keep_blank(_)
tool_names_keep_blank(block) ==
    IF block = <<>> THEN <<>>
    ELSE <<Strip(Head(block))>> \o tool_names_keep_blank(Tail(block))

\* [name.strip() for name in block.split(',') if name.strip()]
RECURSIVE tool_names(_)
tool_names(block) ==
    IF block = <<>> THEN <<>>
    ELSE LET name == Strip(Head(block))
         IN  (IF name # <<>> THEN <<name>> ELSE <<>>) \o tool_names(Tail(block))

\* ', '.join(names)
RECURSIVE Join(_)
Join(names) ==
    IF names = <<>> THEN <<>>
    ELSE IF Len(names) = 1 THEN Head(names)
    ELSE Head(names) \o <<",", " ">> \o Join(Tail(names))

\* Python's order on tuples of integers: lexicographic, a proper prefix first.
RECURSIVE TupleLess(_, _)
TupleLess(x, y) ==
    IF y = <<>> THEN FALSE
    ELSE IF x = <<>> THEN TRUE
    ELSE IF Head(x) # Head(y) THEN Head(x) < Head(y)
    ELSE TupleLess(Tail(x), Tail(y))

\* Mutant: a full window drops its newest entry.
DequeAppend_drop_newest(d, x, maxlen) ==
    IF maxlen = 0 THEN <<>>
    ELSE IF Len(d) >= maxlen THEN SubSeq(d, 1, maxlen - 1) \o <<x>>
    ELSE Append(d, x)

\* deque(maxlen=m).append(x): a full deque drops its oldest entry.
DequeAppend(d, x, maxlen) ==
    IF maxlen = 0 THEN d
    ELSE IF Len(d) >= maxlen THEN SubSeq(d, Len(d) - maxlen + 2, Len(d)) \o <<x>>
    ELSE d \o <<x>>

\* deque.remove(x): drop the first occurrence of x.
RECURSIVE DequeRemove(_, _)
DequeRemove(d, x) ==
    IF d = <<>> THEN <<>>
    ELSE IF Head(d) = x THEN Tail(d)
    ELSE <<Head(d)>> \o DequeRemove(Tail(d), x)

Contains(d, x) == \E i \in 1..Len(d) : d[i] = x

\* Mutant: one item too many.
Take_one_more(s, n) == SubSeq(s, 1, Min(n + 1, Len(s)))

\* seq[:n] for n >= 0.
Take(s, n) == SubSeq(s, 1, Min(n, Len(s)))

----------------------------------------------------------------------------
(* The symbol table.                                                       *)

\* The three fields get_number_for_name reads and writes.
Symbols == [name_to_number |-> name_to_number,
            number_to_name |-> number_to_name,
            next_number    |-> next_number]

\* Mutant: a new id at every resolution, the membership test left out.
get_number_for_name_always_new(st, name) ==
    [name_to_number |->
         [x \in DOMAIN st.name_to_number \cup {name} |->
             IF x = name THEN st.next_number ELSE st.name_to_number[x]],
     number_to_name |->
         [i \in DOMAIN st.number_to_name \cup {st.next_number} |->
             IF i = st.next_number THEN name ELSE st.number_to_name[i]],
     next_number |-> st.next_number + 1]

\* Mutant: next_number is not advanced.
get_number_for_name_no_increment(st, name) ==
    IF name \notin DOMAIN st.name_to_number
    THEN [name_to_number |->
              [x \in DOMAIN st.name_to_number \cup {name} |->
                  IF x = name THEN st.next_number ELSE st.name_to_number[x]],
          number_to_name |->
              [i \in DOMAIN st.number_to_name \cup {st.next_number} |->
                  IF i = st.next_number THEN name ELSE st.number_to_name[i]],
          next_number |-> st.next_number]
    ELSE st

get_number_for_name(st, name) ==
    IF name \notin DOMAIN st.name_to_number
    THEN [name_to_number |->
              [x \in DOMAIN st.name_to_number \cup {name} |->
                  IF x = name THEN st.next_number ELSE st.name_to_number[x]],
          number_to_name |->
              [i \in DOMAIN st.number_to_name \cup {st.next_number} |->
                  IF i = st.next_number THEN name ELSE st.number_to_name[i]],
          next_number |-> st.next_number + 1]
    ELSE st

\* block_to_sequence: the symbol table after resolving every name of the
\* block in order, and the tuple of the ids.
RECURSIVE ResolveNames(_, _, _)
ResolveNames(st, names, acc) ==
    IF names = <<>> THEN [st |-> st, sequence |-> acc]
    ELSE LET st1 == get_number_for_name(st, Head(names))
         IN  ResolveNames(st1, Tail(names),
                          Append(acc, st1.name_to_number[Head(names)]))

block_to_sequence(st, block) == ResolveNames(st, tool_names(block), <<>>)

\* Mutant: the names are joined in reverse order.
sequence_to_names_reversed(names, sequence) ==
    Join([i \in 1..Len(sequence) |-> names[sequence[Len(sequence) + 1 - i]]])

\* sequence_to_names
sequence_to_names(names, sequence) ==
    Join([i \in 1..Len(sequence) |-> names[sequence[i]]])

----------------------------------------------------------------------------
(* The subsequence generator.                                              *)

\* itertools.combinations(range(lo, n + 1), length), in its order.
RECURSIVE Combinations(_, _, _)
RECURSIVE CombinationsFrom(_, _, _)
Combinations(lo, n, length) ==
    IF length = 0 THEN << <<>> >>
    ELSE CombinationsFrom(lo, n, length)

\* The combinations whose first index is i, then those whose first is larger.
CombinationsFrom(i, n, length) ==
    IF i > n - length + 1 THEN <<>>
    ELSE LET rest == Combinations(i + 1, n, length - 1)
         IN  [j \in 1..Len(rest) |-> <<i>> \o rest[j]]
             \o CombinationsFrom(i + 1, n, length)

\* Mutant: only the contiguous runs of the sequence.
RECURSIVE SubsequencesFrom_contiguous(_, _)
SubsequencesFrom_contiguous(sequence, length) ==
    IF length > Len(sequence) THEN <<>>
    ELSE [j \in 1..(Len(sequence) - length + 1) |->
             SubSeq(sequence, j, j + length - 1)]
         \o SubsequencesFrom_contiguous(sequence, length + 1)

RECURSIVE SubsequencesFrom(_, _)
SubsequencesFrom(sequence, length) ==
    IF length > Len(sequence) THEN <<>>
    ELSE LET combs == Combinations(1, Len(sequence), length)
         IN  [j \in 1..Len(combs) |->
                 [i \in 1..Len(combs[j]) |-> sequence[combs[j][i]]]]
             \o SubsequencesFrom(sequence, length + 1)

generate_subsequences(sequence, min_length) ==
    SubsequencesFrom(sequence, min_length)

----------------------------------------------------------------------------
(* The frequency table: full rebuild, estimation, eviction.                *)

\* Mutant: a block counts once for a subsequence, however often it holds it.
RECURSIVE CountSubsequences_once_per_block(_, _, _)
CountSubsequences_once_per_block(table, subsequences, i) ==
    IF subsequences = <<>> THEN table
    ELSE LET sub == Head(subsequences)
             new == IF sub \notin DOMAIN table
                    THEN [frequency |-> 1, last_usage |-> i]
                    ELSE IF table[sub].last_usage = i THEN table[sub]
                    ELSE [frequency  |-> table[sub].frequency + 1,
                          last_usage |-> i]
         IN  CountSubsequences_once_per_block(
                 [x \in DOMAIN table \cup {sub} |->
                     IF x = sub THEN new ELSE table[x]],
                 Tail(subsequences), i)

\* Mutant: last_usage stays at the first block that held the subsequence.
RECURSIVE CountSubsequences_first_usage(_, _, _)
CountSubsequences_first_usage(table, subsequences, i) ==
    IF subsequences = <<>> THEN table
    ELSE LET sub == Head(subsequences)
             old == IF sub \in DOMAIN table THEN table[sub]
                    ELSE [frequency |-> 0, last_usage |-> i]
             new == [frequency  |-> old.frequency + 1,
                     last_usage |-> old.last_usage]
         IN  CountSubsequences_first_usage(
                 [x \in DOMAIN table \cup {sub} |->
                     IF x = sub THEN new ELSE table[x]],
                 Tail(subsequences), i)

\* Lines 143-151: the entries of one block's subsequence list, one by one.
RECURSIVE CountSubsequences(_, _, _)
CountSubsequences(table, subsequences, i) ==
    IF subsequences = <<>> THEN table
    ELSE LET sub  == Head(subsequences)
             old  == IF sub \in DOMAIN table THEN table[sub]
                     ELSE [frequency |-> 0, last_usage |-> i]
             new  == [frequency  |-> old.frequency + 1,
                      last_usage |-> Max(old.last_usage, i)]
         IN  CountSubsequences(
                 [x \in DOMAIN table \cup {sub} |->
                     IF x = sub THEN new ELSE table[x]],
                 Tail(subsequences), i)

\* Lines 139-151: enumerate(all_blocks) from position i (0-based) on; every
\* block is converted again, through the symbol table.
RECURSIVE RebuildFrom(_, _, _, _)
RebuildFrom(st, blocks, i, table) ==
    IF i >= Len(blocks) THEN [st |-> st, table |-> table]
    ELSE LET r == block_to_sequence(st, blocks[i + 1])
         IN  RebuildFrom(r.st, blocks, i + 1,
                 CountSubsequences(table,
                     generate_subsequences(r.sequence, 1), i))

\* Mutant: the blocks of the recency window are left out of the table.
update_frequency_table_outside_recent(st, blocks) ==
    RebuildFrom(st, SubSeq(blocks, 1, Len(blocks) - Min(k, Len(blocks))), 0, <<>>)

\* Mutant: the rebuild counts on top of the table that is there.
update_frequency_table_accumulating(st, blocks) ==
    RebuildFrom(st, blocks, 0, frequency_table)

\* Mutant: the blocks are numbered from 1.
update_frequency_table_one_based(st, blocks) ==
    LET r == RebuildFrom(st, blocks, 0, <<>>)
    IN  [st    |-> r.st,
         table |-> [x \in DOMAIN r.table |->
                      [r.table[x] EXCEPT !.last_usage = @ + 1]]]

\* Mutant: only the newest block is counted, on top of the table eviction
\* left.
update_frequency_table_incremental(st, blocks) ==
    RebuildFrom(st, blocks, Max(Len(blocks) - 1, 0), frequency_table)

\* _update_frequency_table: the new table and the symbol table it leaves.
\* (recent_subseq_set, lines 132-134, is computed and never read.)
update_frequency_table(st, blocks) == RebuildFrom(st, blocks, 0, <<>>)

\* Mutant: the score grows with the age.
estimation_function_growing_with_age(frequency, last_usage, current_index) ==
    LET age == current_index - last_usage
    IN  <<frequency * (1 + age), 1>>

\* estimation_function: frequency * (1.0 / (1.0 + age)), kept as the exact
\* fraction <<frequency, 1 + age>>.  The floating-point product orders and
\* equates two entries exactly as the fractions do while frequency + age of
\* each is at most 22, which every history of this model satisfies.
estimation_function(frequency, last_usage, current_index) ==
    LET age == current_index - last_usage
    IN  <<frequency, 1 + age>>

\* The order and the equality of two fractions.  1 + age is positive in the
\* states add_block leaves; a load can leave a current_block_index below a
\* last_usage, and then 1 + age is negative, or zero (ZeroDivisionIn).
ScoreLess(p, q) ==
    IF (p[2] > 0) = (q[2] > 0) THEN p[1] * q[2] < q[1] * p[2]
    ELSE p[1] * q[2] > q[1] * p[2]

ScoreEq(p, q)   == p[1] * q[2] = q[1] * p[2]

\* Line 208, 1.0 / (1.0 + age), raises ZeroDivisionError: the table is above
\* its capacity, so that _evict_from_frequency_table scores its entries, and
\* an entry was last used in the block after the current one.
ZeroDivisionIn(table, cap, cur) ==
    /\ Cardinality(DOMAIN table) > cap
    /\ \E x \in DOMAIN table : 1 + (cur - table[x].last_usage) = 0

\* Mutant: equal scores are ordered by descending subsequence.
EvictKeyLess_ties_reversed(table, cur, x, y) ==
    LET sx == estimation_function(table[x].frequency, table[x].last_usage, cur)
        sy == estimation_function(table[y].frequency, table[y].last_usage, cur)
    IN  \/ ScoreLess(sx, sy)
        \/ ScoreEq(sx, sy) /\ TupleLess(y, x)

\* The sort key of line 231, (score, subsequence), compared as Python
\* compares tuples.
EvictKeyLess(table, cur, x, y) ==
    LET sx == estimation_function(table[x].frequency, table[x].last_usage, cur)
        sy == estimation_function(table[y].frequency, table[y].last_usage, cur)
    IN  \/ ScoreLess(sx, sy)
        \/ ScoreEq(sx, sy) /\ TupleLess(x, y)

\* entries_with_scores.sort(...): the keys, lowest first.
RECURSIVE SortedForEviction(_, _, _)
SortedForEviction(S, table, cur) ==
    IF S = {} THEN <<>>
    ELSE LET m == CHOOSE x \in S :
                      \A y \in S \ {x} : EvictKeyLess(table, cur, x, y)
         IN  <<m>> \o SortedForEviction(S \ {m}, table, cur)

\* Mutant: the eviction stops one entry short.
removed_subsequences_one_short(table, cap, cur) ==
    IF Cardinality(DOMAIN table) <= cap THEN <<>>
    ELSE SubSeq(SortedForEviction(DOMAIN table, table, cur), 1,
                Cardinality(DOMAIN table) - cap - 1)

\* The removed_subsequences of _evict_from_frequency_table.
removed_subsequences(table, cap, cur) ==
    IF Cardinality(DOMAIN table) <= cap THEN <<>>
    ELSE LET entries       == SortedForEviction(DOMAIN table, table, cur)
             num_to_remove == Cardinality(DOMAIN table) - cap
         IN  SubSeq(entries, 1, num_to_remove)

\* _evict_from_frequency_table: the table it leaves.
evict_from_frequency_table(table, cap, cur) ==
    LET removed == removed_subsequences(table, cap, cur)
        gone    == {removed[i] : i \in 1..Len(removed)}
    IN  [x \in DOMAIN table \ gone |-> table[x]]

\* Lines 122-127, 255-260 and 312-317: rebuild, then evict above capacity.
evict_above(r, cap, cur) ==
    [st    |-> r.st,
     table |-> IF Cardinality(DOMAIN r.table) > cap
               THEN evict_from_frequency_table(r.table, cap, cur)
               ELSE r.table]

rebuild_and_evict(st, blocks, cap, cur) ==
    evict_above(update_frequency_table(st, blocks), cap, cur)

----------------------------------------------------------------------------
(* The selection and ranking engine.                                       *)

\* Mutant: a subsequence counts once per list of the window.
RECURSIVE CountList_once_per_list(_, _)
CountList_once_per_list(freq, subsequences) ==
    LET present == {subsequences[i] : i \in 1..Len(subsequences)}
    IN  [x \in DOMAIN freq \cup present |->
            (IF x \in DOMAIN freq THEN freq[x] ELSE 0)
            + (IF x \in present THEN 1 ELSE 0)]

\* get_recent_subsequences: occurrences of each subsequence over the lists
\* of the recency window.
RECURSIVE CountList(_, _)
CountList(freq, subsequences) ==
    IF subsequences = <<>> THEN freq
    ELSE LET sub == Head(subsequences)
         IN  CountList([x \in DOMAIN freq \cup {sub} |->
                           IF x = sub
                           THEN (IF sub \in DOMAIN freq THEN freq[sub] ELSE 0) + 1
                           ELSE freq[x]],
                       Tail(subsequences))

RECURSIVE CountWindow(_, _)
CountWindow(freq, window) ==
    IF window = <<>> THEN freq
    ELSE CountWindow(CountList(freq, Head(window)), Tail(window))

get_recent_subsequences == CountWindow(<<>>, recent_subsequences)

\* Mutant: the lowest score first.
PickKeyLess_ascending(freq, x, y) ==
    \/ freq[x] * Len(x) < freq[y] * Len(y)
    \/ freq[x] * Len(x) = freq[y] * Len(y) /\ TupleLess(x, y)

\* Mutant: equal scores are ordered by descending subsequence.
PickKeyLess_ties_reversed(freq, x, y) ==
    \/ freq[x] * Len(x) > freq[y] * Len(y)
    \/ freq[x] * Len(x) = freq[y] * Len(y) /\ TupleLess(y, x)

\* The sort key of lines 183 and 274, (-frequency * length, subsequence).
PickKeyLess(freq, x, y) ==
    LET kx == 0 - freq[x] * Len(x)
        ky == 0 - freq[y] * Len(y)
    IN  \/ kx < ky
        \/ kx = ky /\ TupleLess(x, y)

\* sorted(items, key=...): the keys, first-ranked first.
RECURSIVE SortedForPick(_, _)
SortedForPick(S, freq) ==
    IF S = {} THEN <<>>
    ELSE LET m == CHOOSE x \in S : \A y \in S \ {x} : PickKeyLess(freq, x, y)
         IN  <<m>> \o SortedForPick(S \ {m}, freq)

\* The item of lines 189-195.
RecentItem(names, seq, freq) ==
    [sequence  |-> seq,
     names     |-> sequence_to_names(names, seq),
     frequency |-> freq,
     length    |-> Len(seq),
     score     |-> freq * Len(seq)]

\* Lines 188-197: one item per ranked subsequence.
RecentItems(names, top_n, subsequence_freq) ==
    [i \in 1..Len(top_n) |->
        RecentItem(names, top_n[i], subsequence_freq[top_n[i]])]

\* Lines 177-197, from the aggregated frequencies.
RankRecent(names, subsequence_freq, n) ==
    IF DOMAIN subsequence_freq = {} THEN <<>>
    ELSE RecentItems(
             names,
             Take(SortedForPick(DOMAIN subsequence_freq, subsequence_freq), n),
             subsequence_freq)

\* The value pick_from_recent(n) returns.
pick_from_recent_result(n) ==
    RankRecent(number_to_name, get_recent_subsequences, n)

\* The item of lines 280-287.
FrequencyItem(names, seq, data) ==
    [sequence   |-> seq,
     names      |-> sequence_to_names(names, seq),
     frequency  |-> data.frequency,
     length     |-> Len(seq),
     score      |-> data.frequency * Len(seq),
     last_usage |-> data.last_usage]

\* Lines 279-289: one item per ranked entry.
FrequencyItems(names, top_n, table) ==
    [i \in 1..Len(top_n) |-> FrequencyItem(names, top_n[i], table[top_n[i]])]

\* Mutant: an empty table yields one placeholder item.
pick_from_frequency_result_placeholder(names, table, n) ==
    IF DOMAIN table = {}
    THEN << [sequence |-> <<>>, names |-> <<>>, frequency |-> 0, length |-> 0,
             score |-> 0, last_usage |-> 0] >>
    ELSE FrequencyItems(
             names,
             Take(SortedForPick(DOMAIN table,
                                [x \in DOMAIN table |-> table[x].frequency]), n),
             table)

\* The value pick_from_frequency(n) returns, from the rebuilt table
\* (lines 262-289).
pick_from_frequency_result(names, table, n) ==
    IF DOMAIN table = {} THEN <<>>
    ELSE FrequencyItems(
             names,
             Take(SortedForPick(DOMAIN table,
                                [x \in DOMAIN table |-> table[x].frequency]), n),
             table)

\* reversed(seq)
Reverse(s) == [i \in 1..Len(s) |-> s[Len(s) + 1 - i]]

\* tools_list[-n:] for n >= 0: -0 is 0, so n = 0 slices from the start.
LastSlice(s, n) == IF n = 0 THEN s ELSE SubSeq(s, Len(s) - Min(n, Len(s)) + 1, Len(s))

\* The value get_recent_single_tools(n) returns.
get_recent_single_tools_result(n) ==
    LET tools_list == recent_single_tools
        recent_n   == IF Len(tools_list) >= n THEN LastSlice(tools_list, n)
                      ELSE tools_list
    IN  Reverse(recent_n)

----------------------------------------------------------------------------
(* The operations.                                                         *)

\* Mutant: the old occurrence is not removed.
RECURSIVE track_single_tools_no_remove(_, _, _)
track_single_tools_no_remove(tools, names, maxlen) ==
    IF names = <<>> THEN tools
    ELSE track_single_tools_no_remove(DequeAppend(tools, Head(names), maxlen),
                                      Tail(names), maxlen)

\* Lines 109-114: the single-tool list after the names of one block.
RECURSIVE track_single_tools(_, _, _)
track_single_tools(tools, names, maxlen) ==
    IF names = <<>> THEN tools
    ELSE LET kept == IF Contains(tools, Head(names))
                     THEN DequeRemove(tools, Head(names)) ELSE tools
         IN  track_single_tools(DequeAppend(kept, Head(names), maxlen),
                                Tail(names), maxlen)

\* The capacity of recent_single_tools is ns * SingleToolsFactor.
SingleToolsFactor == 10

None == "None"

\* No directory of persisted containers exists.
NoDirectory == [exists |-> FALSE, files |-> <<>>, unreadable |-> {}]

\* __init__ with the arguments c (no containers_dir: nothing is loaded).
Construct(c) ==
    /\ k = c.k /\ t = c.t /\ nr = c.nr /\ nf = c.nf /\ ns = c.ns
    /\ name_to_number = <<>>
    /\ number_to_name = <<>>
    /\ next_number = 1
    /\ recent_blocks = <<>>
    /\ frequency_table = <<>>
    /\ all_blocks = <<>>
    /\ current_block_index = 0
    /\ recent_subsequences = <<>>
    /\ recent_single_tools = <<>>
    /\ directory = NoDirectory
    /\ call = [op |-> "__init__", arg |-> None]
    /\ ret = None
    /\ raised = None
    /\ threads = <<>>

Init == \E c \in Configs : Construct(c)

\* The five parameters of the instance.
Params == [k |-> k, t |-> t, nr |-> nr, nf |-> nf, ns |-> ns]

\* The nine containers of an instance.
Containers ==
    [name_to_number      |-> name_to_number,
     number_to_name      |-> number_to_name,
     next_number         |-> next_number,
     recent_blocks       |-> recent_blocks,
     frequency_table     |-> frequency_table,
     all_blocks          |-> all_blocks,
     current_block_index |-> current_block_index,
     recent_subsequences |-> recent_subsequences,
     recent_single_tools |-> recent_single_tools]

\* The containers of a fresh instance (lines 43-51).
FreshContainers ==
    [name_to_number      |-> <<>>,
     number_to_name      |-> <<>>,
     next_number         |-> 1,
     recent_blocks       |-> <<>>,
     frequency_table     |-> <<>>,
     all_blocks          |-> <<>>,
     current_block_index |-> 0,
     recent_subsequences |-> <<>>,
     recent_single_tools |-> <<>>]

\* The containers become those of the record c.
SetContainers(c) ==
    /\ name_to_number' = c.name_to_number
    /\ number_to_name' = c.number_to_name
    /\ next_number' = c.next_number
    /\ recent_blocks' = c.recent_blocks
    /\ frequency_table' = c.frequency_table
    /\ all_blocks' = c.all_blocks
    /\ current_block_index' = c.current_block_index
    /\ recent_subsequences' = c.recent_subsequences
    /\ recent_single_tools' = c.recent_single_tools

\* Line 100: the block history after storing the block.
store_block_replacing_last(blocks, block) ==
    IF blocks = <<>> THEN <<block>>
    ELSE [blocks EXCEPT ![Len(blocks)] = block]

store_block(blocks, block) == Append(blocks, block)

\* The symbol table held in the containers c.
SymbolsOf(c) == [name_to_number |-> c.name_to_number,
                 number_to_name |-> c.number_to_name,
                 next_number    |-> c.next_number]

\* Mutant: the subsequence lists of a full window drop their newest entry,
\* the block tuples their oldest.
StoredBlock_windows_apart(p, c, block, r, blocks, rebuilt) ==
    [name_to_number      |-> rebuilt.st.name_to_number,
     number_to_name      |-> rebuilt.st.number_to_name,
     next_number         |-> rebuilt.st.next_number,
     recent_blocks       |-> DequeAppend(c.recent_blocks, r.sequence, p.k),
     frequency_table     |-> rebuilt.table,
     all_blocks          |-> blocks,
     current_block_index |-> Len(blocks) - 1,
     recent_subsequences |-> DequeAppend_drop_newest(c.recent_subsequences,
                                 generate_subsequences(r.sequence, 1), p.k),
     recent_single_tools |-> track_single_tools(c.recent_single_tools,
                                 tool_names(block), p.ns * SingleToolsFactor)]

\* Lines 100-127 on the containers c, r being the block's sequence with the
\* symbol table it left and rebuilt the table rebuilt and evicted at the end.
StoredBlock(p, c, block, r, blocks, rebuilt) ==
    [name_to_number      |-> rebuilt.st.name_to_number,
     number_to_name      |-> rebuilt.st.number_to_name,
     next_number         |-> rebuilt.st.next_number,
     recent_blocks       |-> DequeAppend(c.recent_blocks, r.sequence, p.k),
     frequency_table     |-> rebuilt.table,
     all_blocks          |-> blocks,
     current_block_index |-> Len(blocks) - 1,
     recent_subsequences |-> DequeAppend(c.recent_subsequences,
                                 generate_subsequences(r.sequence, 1), p.k),
     recent_single_tools |-> track_single_tools(c.recent_single_tools,
                                 tool_names(block), p.ns * SingleToolsFactor)]

\* add_block (lines 93-127) as a function: the containers after the call on
\* an instance with the parameters p and the containers c.
AddBlock(p, c, block) ==
    LET r == block_to_sequence(SymbolsOf(c), block)
        blocks == store_block(c.all_blocks, block)
    IN  IF r.sequence = <<>> THEN c
        ELSE StoredBlock(p, c, block, r, blocks,
                 rebuild_and_evict(r.st, blocks, p.t, Len(blocks) - 1))

add_block(block) ==
    /\ raised' = None /\ UNCHANGED threads
    /\ call' = [op |-> "add_block", arg |-> block]
    /\ ret' = None
    /\ UNCHANGED <<params, directory>>
    /\ \E stored \in {AddBlock(Params, Containers, block)} : SetContainers(stored)

\* Every number of the sequence has a name: sequence_to_names (line 91)
\* does not raise KeyError.
Named(names, sequence) ==
    \A i \in 1..Len(sequence) : sequence[i] \in DOMAIN names

\* One of the items of lines 188-197 raises KeyError: one of the n ranked
\* first has a number without a name.
RecentKeyError(names, subsequence_freq, n) ==
    /\ \E x \in DOMAIN subsequence_freq : ~Named(names, x)
    /\ \E top_n \in {Take(SortedForPick(DOMAIN subsequence_freq, subsequence_freq), n)} :
           \E i \in 1..Len(top_n) : ~Named(names, top_n[i])

\* The same for the items of lines 279-289.
FrequencyKeyError(names, table, n) ==
    /\ \E x \in DOMAIN table : ~Named(names, x)
    /\ \E top_n \in {Take(SortedForPick(DOMAIN table,
                            [x \in DOMAIN table |-> table[x].frequency]), n)} :
           \E i \in 1..Len(top_n) : ~Named(names, top_n[i])

\* Lines 255-260 and 312-317 from the symbol table st: the rebuild, then the
\* eviction above the capacity, which raises before it removes an entry.
RebuildAndEvictOutcome(st) ==
    LET Outcome(r) ==
            IF ZeroDivisionIn(r.table, t, current_block_index)
            THEN [st |-> r.st, table |-> r.table, raised |-> "ZeroDivisionError"]
            ELSE [st     |-> r.st,
                  table  |-> evict_above(r, t, current_block_index).table,
                  raised |-> None]
    IN  Outcome(update_frequency_table(st, all_blocks))

\* pick_from_recent(n) (lines 165-197); sequence_to_names raises KeyError on
\* a returned subsequence with a number that has no name.
pick_from_recent(n) ==
    /\ UNCHANGED threads
    /\ call' = [op |-> "pick_from_recent", arg |-> n]
    /\ IF RecentKeyError(number_to_name, get_recent_subsequences, n)
       THEN raised' = "KeyError" /\ ret' = None
       ELSE raised' = None /\ ret' = pick_from_recent_result(n)
    /\ UNCHANGED <<params, containers, directory>>

\* pick_from_frequency(n) (lines 245-289): the rebuild, the eviction, which
\* raises ZeroDivisionError before it removes anything, and the items, of
\* which one may raise KeyError.
pick_from_frequency(n) ==
    \E rebuilt \in {RebuildAndEvictOutcome(Symbols)} :
        \E failed \in {IF rebuilt.raised # None THEN rebuilt.raised
                       ELSE IF FrequencyKeyError(rebuilt.st.number_to_name,
                                                 rebuilt.table, n)
                       THEN "KeyError" ELSE None} :
            /\ raised' = failed /\ UNCHANGED threads
            /\ call' = [op |-> "pick_from_frequency", arg |-> n]
            /\ frequency_table' = rebuilt.table
            /\ name_to_number' = rebuilt.st.name_to_number
            /\ number_to_name' = rebuilt.st.number_to_name
            /\ next_number' = rebuilt.st.next_number
            /\ ret' = IF failed # None THEN None
                      ELSE pick_from_frequency_result(rebuilt.st.number_to_name,
                                                      rebuilt.table, n)
            /\ UNCHANGED <<params, directory, recent_blocks, all_blocks,
                           current_block_index, recent_subsequences,
                           recent_single_tools>>

get_recent_single_tools(n) ==
    /\ raised' = None /\ UNCHANGED threads
    /\ call' = [op |-> "get_recent_single_tools", arg |-> n]
    /\ ret' = get_recent_single_tools_result(n)
    /\ UNCHANGED <<params, containers, directory>>

\* get_selections (lines 308-327): rebuild and evict, then the three picks
\* with the configured sizes; pick_from_frequency rebuilds and evicts again.
\* The first exception of its calls ends get_selections; the table and the
\* symbols are as the last rebuild and eviction left them.
get_selections ==
    \E first \in {RebuildAndEvictOutcome(Symbols)} :
        \E recent \in {IF first.raised # None THEN first.raised
                       ELSE IF RecentKeyError(first.st.number_to_name,
                                              get_recent_subsequences, nr)
                       THEN "KeyError" ELSE None} :
            \E rebuilt \in {IF recent # None THEN first
                            ELSE RebuildAndEvictOutcome(first.st)} :
                \E failed \in {IF recent # None THEN recent
                               ELSE IF FrequencyKeyError(rebuilt.st.number_to_name,
                                                         rebuilt.table, nf)
                               THEN "KeyError" ELSE None} :
                    /\ raised' = failed /\ UNCHANGED threads
                    /\ call' = [op |-> "get_selections", arg |-> None]
                    /\ frequency_table' = rebuilt.table
                    /\ name_to_number' = rebuilt.st.name_to_number
                    /\ number_to_name' = rebuilt.st.number_to_name
                    /\ next_number' = rebuilt.st.next_number
                    /\ ret' = IF failed # None THEN None
                              ELSE [from_recent    |-> RankRecent(
                                                          first.st.number_to_name,
                                                          get_recent_subsequences, nr),
                                    from_frequency |-> pick_from_frequency_result(
                                                          rebuilt.st.number_to_name,
                                                          rebuilt.table, nf),
                                    single_tools   |-> get_recent_single_tools_result(ns)]
                    /\ UNCHANGED <<params, directory, recent_blocks, all_blocks,
                                   current_block_index, recent_subsequences,
                                   recent_single_tools>>

----------------------------------------------------------------------------
(* Persistence: the JSON files of save_containers and load_containers.     *)
(* A file's content is the value json.load reads from it: a JSON object is *)
(* a function on strings, a JSON array a sequence; Python lists and tuples *)
(* are both sequences, so list(...) and tuple(...) are not visible here.   *)

FileNames == { "name_to_number.json", "number_to_name.json", "next_number.json",
               "recent_blocks.json", "frequency_table.json", "all_blocks.json",
               "current_block_index.json", "recent_subsequences.json",
               "recent_single_tools.json", "config.json" }

DigitChars == <<"0", "1", "2", "3", "4", "5", "6", "7", "8", "9">>

\* str(i) of a natural number: the key json.dump writes for an int key.
RECURSIVE str_int(_)
str_int(i) ==
    IF i < 10 THEN <<DigitChars[i + 1]>>
    ELSE str_int(i \div 10) \o <<DigitChars[(i % 10) + 1]>>

\* Mutant: the key is read as its last digit less one.
RECURSIVE int_str_off_by_one(_)
int_str_off_by_one(s) ==
    LET digit == CHOOSE d \in 0..9 : DigitChars[d + 1] = s[Len(s)]
    IN  IF Len(s) = 1 THEN digit - 1
        ELSE int_str_off_by_one(SubSeq(s, 1, Len(s) - 1)) * 10 + digit

\* int(s) of a string of decimal digits.
RECURSIVE int_str(_)
int_str(s) ==
    LET digit == CHOOSE d \in 0..9 : DigitChars[d + 1] = s[Len(s)]
    IN  IF Len(s) = 1 THEN digit
        ELSE int_str(SubSeq(s, 1, Len(s) - 1)) * 10 + digit

\* sep.join(parts)
RECURSIVE JoinWith(_, _)
JoinWith(parts, sep) ==
    IF parts = <<>> THEN <<>>
    ELSE IF Len(parts) = 1 THEN Head(parts)
    ELSE Head(parts) \o sep \o JoinWith(Tail(parts), sep)

\* str(list(key)) of a tuple of ids: "[1, 2]".
str_list(key) ==
    <<"[">> \o JoinWith([i \in 1..Len(key) |-> str_int(key[i])], <<",", " ">>)
            \o <<"]">>

\* s.split(c)
RECURSIVE Split(_, _)
Split(s, c) ==
    IF \A i \in 1..Len(s) : s[i] # c THEN <<s>>
    ELSE LET i == CHOOSE j \in 1..Len(s) :
                      s[j] = c /\ \A h \in 1..(j - 1) : s[h] # c
         IN  <<SubSeq(s, 1, i - 1)>> \o Split(SubSeq(s, i + 1, Len(s)), c)

IsDigits(s) ==
    s # <<>> /\ \A i \in 1..Len(s) : \E d \in 1..10 : DigitChars[d] = s[i]

\* The non-blank parts of a comma-separated string, stripped.
RECURSIVE Parts(_)
Parts(fields) ==
    IF fields = <<>> THEN <<>>
    ELSE (IF Strip(Head(fields)) # <<>> THEN <<Strip(Head(fields))>> ELSE <<>>)
         \o Parts(Tail(fields))

\* ast.literal_eval accepts the string as a list of integers.
IsListLiteral(s) ==
    /\ Len(s) >= 2 /\ s[1] = "[" /\ s[Len(s)] = "]"
    /\ LET inner == SubSeq(s, 2, Len(s) - 1)
           fields == Split(inner, ",")
       IN  \/ Strip(inner) = <<>>
           \/ \A i \in 1..Len(fields) : IsDigits(Strip(fields[i]))

\* Lines 455-467: the tuple a serialized key of the frequency table stands
\* for, by ast.literal_eval or else by stripping the brackets and splitting.
ParseKey(key_str) ==
    IF IsListLiteral(key_str)
    THEN LET parts == Parts(Split(SubSeq(key_str, 2, Len(key_str) - 1), ","))
         IN  [i \in 1..Len(parts) |-> int_str(parts[i])]
    ELSE LET stripped == Strip(key_str)
             inner == IF /\ stripped # <<>>
                         /\ stripped[1] = "["
                         /\ stripped[Len(stripped)] = "]"
                      THEN SubSeq(stripped, 2, Len(stripped) - 1)
                      ELSE stripped
             parts == Parts(Split(inner, ","))
         IN  IF inner # <<>> THEN [i \in 1..Len(parts) |-> int_str(parts[i])]
             ELSE <<>>

\* Lines 456-467 raise on the key, for keys written with digits, letters,
\* brackets, commas and spaces: ast.literal_eval yields an integer, of which
\* tuple() raises TypeError, which line 459 does not catch; or it raises and
\* the fallback's int() raises ValueError on a part that is not a number.
KeyRaises(key_str) ==
    /\ ~IsListLiteral(key_str)
    /\ \/ IsDigits(Strip(key_str))
       \/ LET stripped == Strip(key_str)
               inner == IF /\ stripped # <<>>
                           /\ stripped[1] = "["
                           /\ stripped[Len(stripped)] = "]"
                        THEN SubSeq(stripped, 2, Len(stripped) - 1)
                        ELSE stripped
               parts == Parts(Split(inner, ","))
           IN  inner # <<>> /\ \E i \in 1..Len(parts) : ~IsDigits(parts[i])

\* deque(items, maxlen) keeping the oldest maxlen items.
DequeOf_keep_oldest(items, maxlen) ==
    IF Len(items) <= maxlen THEN items
    ELSE SubSeq(items, 1, maxlen)

\* deque(items, maxlen): the last maxlen items.
DequeOf(items, maxlen) ==
    IF Len(items) <= maxlen THEN items
    ELSE SubSeq(items, Len(items) - maxlen + 1, Len(items))

\* Lines 344-399: what save_containers writes into each file, for an
\* instance with the parameters p and the containers c.
SavedFilesOf(p, c) ==
    [f \in FileNames |->
        CASE f = "name_to_number.json" -> c.name_to_number
          [] f = "number_to_name.json" ->
                 [s \in {str_int(i) : i \in DOMAIN c.number_to_name} |->
                     c.number_to_name[CHOOSE i \in DOMAIN c.number_to_name :
                                          str_int(i) = s]]
          [] f = "next_number.json" -> c.next_number
          [] f = "recent_blocks.json" -> c.recent_blocks
          [] f = "frequency_table.json" ->
                 [s \in {str_list(key) : key \in DOMAIN c.frequency_table} |->
                     c.frequency_table[CHOOSE key \in DOMAIN c.frequency_table :
                                           str_list(key) = s]]
          [] f = "all_blocks.json" -> c.all_blocks
          [] f = "current_block_index.json" -> c.current_block_index
          [] f = "recent_subsequences.json" -> c.recent_subsequences
          [] f = "recent_single_tools.json" -> c.recent_single_tools
          [] f = "config.json" ->
                 [k |-> p.k, t |-> p.t, nr |-> p.nr, nf |-> p.nf, ns |-> p.ns]]

SavedFiles == SavedFilesOf(Params, Containers)

\* The files in the order save_containers writes them (lines 346-399).
SaveOrder == << "name_to_number.json", "number_to_name.json", "next_number.json",
                "recent_blocks.json", "frequency_table.json", "all_blocks.json",
                "current_block_index.json", "recent_subsequences.json",
                "recent_single_tools.json", "config.json" >>

\* The files in the order load_containers reads them (lines 423-497);
\* config.json is never read.
LoadOrder == SubSeq(SaveOrder, 1, 9)

\* The place of the file f in the sequence order.
Position(order, f) == CHOOSE i \in 1..Len(order) : order[i] = f

\* Reading the file f of the directory dir raises inside the try block of
\* load_containers: open or json.load raises on an unreadable file, the key
\* conversion on a key of the frequency table.
Raises(dir, f) ==
    /\ f \in DOMAIN dir.files
    /\ \/ f \in dir.unreadable
       \/ /\ f = "frequency_table.json"
          /\ \E key_str \in DOMAIN dir.files[f] : KeyRaises(key_str)

\* The place in LoadOrder at which the load of dir stops: that of the first
\* file that raises, or one past the last file.
AbortsAt(dir) ==
    IF \E i \in 1..Len(LoadOrder) : Raises(dir, LoadOrder[i])
    THEN CHOOSE i \in 1..Len(LoadOrder) :
             /\ Raises(dir, LoadOrder[i])
             /\ \A j \in 1..(i - 1) : ~Raises(dir, LoadOrder[j])
    ELSE Len(LoadOrder) + 1

\* What load_containers has read from dir when it returns: the files before
\* the one that raises and, when it is a key of the frequency table that
\* raises, the entries before that key (line 453 has emptied the table;
\* the key that raises is the last of its file).
FilesRead(dir) ==
    LET stop == AbortsAt(dir)
        read == {f \in DOMAIN dir.files \cap {LoadOrder[i] : i \in 1..Len(LoadOrder)} :
                    \/ Position(LoadOrder, f) < stop
                    \/ Position(LoadOrder, f) = stop /\ f \notin dir.unreadable}
    IN  [f \in read |->
            IF Position(LoadOrder, f) < stop THEN dir.files[f]
            ELSE [key_str \in {x \in DOMAIN dir.files[f] : ~KeyRaises(x)} |->
                     dir.files[f][key_str]]]

\* Mutant: a container whose file is absent is reset to its initial value.
LoadedContainers_resetting(files, cur) ==
    LET Has(f) == f \in DOMAIN files
    IN  [name_to_number |->
             IF Has("name_to_number.json") THEN files["name_to_number.json"]
             ELSE <<>>,
         number_to_name |->
             IF Has("number_to_name.json")
             THEN LET loaded == files["number_to_name.json"]
                  IN  [i \in {int_str(s) : s \in DOMAIN loaded} |->
                          loaded[CHOOSE s \in DOMAIN loaded : int_str(s) = i]]
             ELSE <<>>,
         next_number |->
             IF Has("next_number.json") THEN files["next_number.json"] ELSE 1,
         recent_blocks |->
             IF Has("recent_blocks.json")
             THEN DequeOf(files["recent_blocks.json"], k)
             ELSE <<>>,
         frequency_table |->
             IF Has("frequency_table.json")
             THEN LET serialized == files["frequency_table.json"]
                  IN  [key \in {ParseKey(s) : s \in DOMAIN serialized} |->
                          serialized[CHOOSE s \in DOMAIN serialized :
                                         ParseKey(s) = key]]
             ELSE <<>>,
         all_blocks |->
             IF Has("all_blocks.json") THEN files["all_blocks.json"] ELSE <<>>,
         current_block_index |->
             IF Has("current_block_index.json")
             THEN files["current_block_index.json"]
             ELSE 0,
         recent_subsequences |->
             IF Has("recent_subsequences.json")
             THEN DequeOf(files["recent_subsequences.json"], k)
             ELSE <<>>,
         recent_single_tools |->
             IF Has("recent_single_tools.json")
             THEN DequeOf(files["recent_single_tools.json"], ns * SingleToolsFactor)
             ELSE <<>>]

\* Lines 421-499: the containers after the files read have been loaded into
\* an instance whose containers are cur; a container whose file was not read
\* keeps its value.
LoadedContainers(files, cur) ==
    LET Has(f) == f \in DOMAIN files
    IN  [name_to_number |->
             IF Has("name_to_number.json") THEN files["name_to_number.json"]
             ELSE cur.name_to_number,
         number_to_name |->
             IF Has("number_to_name.json")
             THEN LET loaded == files["number_to_name.json"]
                  IN  [i \in {int_str(s) : s \in DOMAIN loaded} |->
                          loaded[CHOOSE s \in DOMAIN loaded : int_str(s) = i]]
             ELSE cur.number_to_name,
         next_number |->
             IF Has("next_number.json") THEN files["next_number.json"]
             ELSE cur.next_number,
         recent_blocks |->
             IF Has("recent_blocks.json")
             THEN DequeOf(files["recent_blocks.json"], k)
             ELSE cur.recent_blocks,
         frequency_table |->
             IF Has("frequency_table.json")
             THEN LET serialized == files["frequency_table.json"]
                  IN  [key \in {ParseKey(s) : s \in DOMAIN serialized} |->
                          serialized[CHOOSE s \in DOMAIN serialized :
                                         ParseKey(s) = key]]
             ELSE cur.frequency_table,
         all_blocks |->
             IF Has("all_blocks.json") THEN files["all_blocks.json"]
             ELSE cur.all_blocks,
         current_block_index |->
             IF Has("current_block_index.json")
             THEN files["current_block_index.json"]
             ELSE cur.current_block_index,
         recent_subsequences |->
             IF Has("recent_subsequences.json")
             THEN DequeOf(files["recent_subsequences.json"], k)
             ELSE cur.recent_subsequences,
         recent_single_tools |->
             IF Has("recent_single_tools.json")
             THEN DequeOf(files["recent_single_tools.json"], ns * SingleToolsFactor)
             ELSE cur.recent_single_tools]

\* What can go wrong while save_containers runs: nothing, the creation of
\* the directory, or the writing of one file.
SaveFailures == {"none", "mkdir"} \cup FileNames

\* The directory after save_containers has written the files before the
\* place stop of SaveOrder and left the files of the set cut cut short: a
\* file written is readable and holds the instance's value, a file cut short
\* is unreadable, the others are as they were.
WrittenUpTo(dir, stop, cut) ==
    LET written == {SaveOrder[i] : i \in 1..(stop - 1)}
    IN  [exists     |-> TRUE,
         files      |-> [f \in written \cup cut \cup DOMAIN dir.files |->
                            IF f \in written \cup cut THEN SavedFiles[f]
                            ELSE dir.files[f]],
         unreadable |-> (dir.unreadable \ written) \cup cut]

\* save_containers(containers_dir) (lines 329-404): the directory is created
\* outside the try block, so that a failure to create it, possible when it
\* does not exist, reaches the caller; the ten files are written in order and
\* the first one that fails, on open (the file is as it was) or while it is
\* written (the file is cut short), ends the call, which then returns False.
save_containers(failure) ==
    /\ call' = [op |-> "save_containers", arg |-> failure]
    /\ failure = "mkdir" => ~directory.exists
    /\ UNCHANGED <<params, containers, threads>>
    /\ IF failure = "mkdir"
       THEN raised' = "OSError" /\ ret' = None /\ UNCHANGED directory
       ELSE IF failure = "none"
       THEN /\ raised' = None /\ ret' = TRUE
            /\ directory' = WrittenUpTo(directory, Len(SaveOrder) + 1, {})
       ELSE /\ raised' = None /\ ret' = FALSE
            /\ \E cut \in {{}, {failure}} :
                   directory' = WrittenUpTo(directory, Position(SaveOrder, failure), cut)

\* The directory a load is pointed at: the saved files named in present.
DirectoryView(present) ==
    [exists     |-> directory.exists,
     files      |-> [f \in (DOMAIN directory.files) \cap present |->
                        directory.files[f]],
     unreadable |-> directory.unreadable \cap present]

\* load_containers(containers_dir) (lines 406-502) on a directory holding the
\* files present: False when the directory does not exist or a file raises.
load_containers(present) ==
    /\ raised' = None /\ UNCHANGED threads
    /\ call' = [op |-> "load_containers", arg |-> present]
    /\ UNCHANGED <<params, directory>>
    /\ IF ~directory.exists
       THEN ret' = FALSE /\ UNCHANGED containers
       ELSE \E dir \in {DirectoryView(present)} :
                /\ ret' = (AbortsAt(dir) > Len(LoadOrder))
                /\ \E loaded \in {LoadedContainers(FilesRead(dir), Containers)} :
                       SetContainers(loaded)

\* __init__(k, t, nr, nf, ns, containers_dir) with the instance's own
\* parameters (lines 43-55): fresh containers, then load_containers, whose
\* return value is dropped.
Reconstruct(present) ==
    /\ raised' = None /\ UNCHANGED threads
    /\ call' = [op |-> "__init__", arg |-> present]
    /\ ret' = None
    /\ UNCHANGED <<params, directory>>
    /\ IF ~directory.exists
       THEN SetContainers(FreshContainers)
       ELSE \E dir \in {DirectoryView(present)} :
                \E loaded \in {LoadedContainers(FilesRead(dir), FreshContainers)} :
                    SetContainers(loaded)

----------------------------------------------------------------------------
(* The specifications.                                                     *)

RECURSIVE FieldsUsed(_)
FieldsUsed(blocks) ==
    IF blocks = <<>> THEN 0 ELSE Len(Head(blocks)) + FieldsUsed(Tail(blocks))

\* The blocks of at most m fields.
Blocks(m) == UNION { [1..len -> RawFields] : len \in 1..m }

\* Blocks without a tool name: the splits of "", ",", "  " and ", ".
BlankBlocks == { << <<>> >>, << <<>>, <<>> >>, << <<" ", " ">> >>, << <<>>, <<" ">> >> }

Next ==
    \/ \E block \in Blocks(MaxFields - FieldsUsed(all_blocks)) : add_block(block)
    \/ \E block \in BlankBlocks : add_block(block)
    \/ \E n \in 0..MaxN : pick_from_recent(n)
    \/ \E n \in 0..MaxN : pick_from_frequency(n)
    \/ \E n \in 0..MaxN : get_recent_single_tools(n)
    \/ get_selections

Spec == Init /\ [][Next]_vars

\* add_block alone, over longer histories.
NextHistory ==
    \E block \in Blocks(MaxHistoryFields - FieldsUsed(all_blocks)) : add_block(block)

SpecHistory == Init /\ [][NextHistory]_vars

\* generate_subsequences alone, on tuples of symbols.
MaxLen == 4
MaxSymbol == 4
MaxMinLength == 2

SymbolSequences == UNION { [1..len -> 1..MaxSymbol] : len \in 0..MaxLen }

\* A fresh instance and the arguments of the call to come.
InitGenerate ==
    \E sequence \in SymbolSequences : \E min_length \in 1..MaxMinLength :
        /\ k = DefaultConfig.k /\ t = DefaultConfig.t
        /\ nr = DefaultConfig.nr /\ nf = DefaultConfig.nf /\ ns = DefaultConfig.ns
        /\ name_to_number = <<>>
        /\ number_to_name = <<>>
        /\ next_number = 1
        /\ recent_blocks = <<>>
        /\ frequency_table = <<>>
        /\ all_blocks = <<>>
        /\ current_block_index = 0
        /\ recent_subsequences = <<>>
        /\ recent_single_tools = <<>>
        /\ directory = NoDirectory
        /\ call = [op |-> "__init__",
                   arg |-> [sequence |-> sequence, min_length |-> min_length]]
        /\ ret = None
        /\ raised = None
        /\ threads = <<>>

call_generate_subsequences ==
    /\ call.op = "__init__"
    /\ raised' = None /\ UNCHANGED threads
    /\ call' = [op |-> "generate_subsequences", arg |-> call.arg]
    /\ ret' = generate_subsequences(call.arg.sequence, call.arg.min_length)
    /\ UNCHANGED <<params, containers, directory>>

NextGenerate == call_generate_subsequences

SpecGenerate == InitGenerate /\ [][NextGenerate]_vars

\* Saving, loading and rebuilding instances between add_block calls: the
\* total number of fields of the blocks of an instance, the fields they are
\* made of and the arguments of the constructor.
MaxPersistFields == 2

PersistFields == { <<"a">>, <<" ", "b">> }

PersistConfigs == { [k |-> 2, t |-> 1, nr |-> 2, nf |-> 2, ns |-> 1],
                    [k |-> 2, t |-> 3, nr |-> 2, nf |-> 2, ns |-> 2] }

PersistBlocks(m) == UNION { [1..len -> PersistFields] : len \in 1..m }

\* The files a loaded directory holds: all that were saved, the block history
\* with its index alone, or none.
LoadSubsets == { FileNames, {"all_blocks.json", "current_block_index.json"}, {} }

InitPersist == \E c \in PersistConfigs : Construct(c)

NextPersist ==
    \/ \E block \in PersistBlocks(MaxPersistFields - FieldsUsed(all_blocks)) :
           add_block(block)
    \/ save_containers("none")
    \/ load_containers(FileNames)
    \/ \E present \in LoadSubsets : Reconstruct(present)
    \/ pick_from_frequency(MaxN)
    \/ get_selections

SpecPersist == InitPersist /\ [][NextPersist]_vars

\* add_block alone on blocks of many names: eleven distinct names, one more
\* than the single-tool list of an instance with ns = 1 can hold, and the
\* instance with ns = 0, whose list holds none.
MaxToolBlocks == 4

ToolBlocks == { << <<"d">>, <<"e">>, <<"f">> >>,
                << <<" ", "g">>, <<"h">>, <<"i">> >>,
                << <<"j">>, <<"k">>, <<"l">> >>,
                << <<"m">>, <<"n">> >>,
                << <<"d">> >>,
                << <<"i">>, <<"j", " ">>, <<"i">> >> }

ToolConfigs == { [k |-> 1, t |-> 1, nr |-> 1, nf |-> 1, ns |-> 1],
                 [k |-> 1, t |-> 1, nr |-> 1, nf |-> 1, ns |-> 0] }

InitTools == \E c \in ToolConfigs : Construct(c)

NextTools ==
    \E block \in ToolBlocks : Len(all_blocks) < MaxToolBlocks /\ add_block(block)

SpecTools == InitTools /\ [][NextTools]_vars

\* Loading directories an instance did not write as a whole: the instance
\* has stored the blocks of one history, the directory holds what an instance
\* with the same parameters saved after another history, of which any of the
\* nine files read may be missing, one may be unreadable, or the frequency
\* table may have got one more key at its end.
MaxLoadFields == 2

LoadConfigs == { [k |-> 2, t |-> 3, nr |-> 2, nf |-> 2, ns |-> 1] }

\* The containers after the blocks of history, from a fresh instance.
RECURSIVE AfterBlocks(_, _, _)
AfterBlocks(p, c, history) ==
    IF history = <<>> THEN c
    ELSE CHOOSE after \in { AfterBlocks(p, stored, Tail(history)) :
                               stored \in {AddBlock(p, c, Head(history))} } : TRUE

\* The histories of at most m fields in all.
RECURSIVE Histories(_)
Histories(m) ==
    {<<>>} \cup UNION { { <<block>> \o rest : rest \in Histories(m - Len(block)) } :
                           block \in PersistBlocks(m) }

LiveHistories == { <<>>, << << <<"b">>, <<"a">> >> >> }

\* Keys a frequency_table.json can hold that save_containers did not write:
\* "abc", "1", "" and "[,]".
DamagedKeys == { <<"a", "b", "c">>, <<"1">>, <<>>, <<"[", ",", "]">> }

\* The directories made of the files saved.
Directories(saved) ==
    {NoDirectory}
    \cup { [exists     |-> TRUE,
            files      |-> [f \in present \cup {"config.json"} |-> saved[f]],
            unreadable |-> {}] : present \in SUBSET (FileNames \ {"config.json"}) }
    \cup { [exists |-> TRUE, files |-> saved, unreadable |-> {f}] :
               f \in FileNames \ {"config.json"} }
    \cup { [exists     |-> TRUE,
            files      |-> [saved EXCEPT !["frequency_table.json"] =
                               [key_str \in DOMAIN @ \cup {damaged} |->
                                   IF key_str = damaged
                                   THEN [frequency |-> 1, last_usage |-> 0]
                                   ELSE @[key_str]]],
            unreadable |-> {}] : damaged \in DamagedKeys }

InitLoad ==
    \E c \in LoadConfigs :
        \E live \in LiveHistories, history \in Histories(MaxLoadFields) :
            \E dir \in Directories(SavedFilesOf(c,
                           AfterBlocks(c, FreshContainers, history))) :
                \E c0 \in {AfterBlocks(c, FreshContainers, live)} :
                    /\ k = c.k /\ t = c.t /\ nr = c.nr /\ nf = c.nf /\ ns = c.ns
                    /\ name_to_number = c0.name_to_number
                    /\ number_to_name = c0.number_to_name
                    /\ next_number = c0.next_number
                    /\ recent_blocks = c0.recent_blocks
                    /\ frequency_table = c0.frequency_table
                    /\ all_blocks = c0.all_blocks
                    /\ current_block_index = c0.current_block_index
                    /\ recent_subsequences = c0.recent_subsequences
                    /\ recent_single_tools = c0.recent_single_tools
                    /\ directory = dir
                    /\ call = [op |-> "__init__", arg |-> None]
                    /\ ret = None
                    /\ raised = None
                    /\ threads = <<>>

NextLoad ==
    \/ load_containers(FileNames)
    \/ Reconstruct(FileNames)

SpecLoad == InitLoad /\ [][NextLoad]_vars

\* Saving on a disk that can fail: the directory cannot be created, or a
\* file cannot be opened or written to its end.  The instance has stored
\* the blocks of one history; the directory does not exist or holds what was
\* saved after another history.  The instance saves once and the directory
\* is loaded from then on.
MaxSaveFields == 2

SaveConfigs == { [k |-> 2, t |-> 3, nr |-> 2, nf |-> 2, ns |-> 1] }

InitSave ==
    \E c \in SaveConfigs :
        \E history \in Histories(MaxSaveFields), earlier \in Histories(MaxSaveFields) :
            \E dir \in {NoDirectory,
                        [exists     |-> TRUE,
                         files      |-> SavedFilesOf(c,
                                            AfterBlocks(c, FreshContainers, earlier)),
                         unreadable |-> {}]} :
                \E c0 \in {AfterBlocks(c, FreshContainers, history)} :
                    /\ k = c.k /\ t = c.t /\ nr = c.nr /\ nf = c.nf /\ ns = c.ns
                    /\ name_to_number = c0.name_to_number
                    /\ number_to_name = c0.number_to_name
                    /\ next_number = c0.next_number
                    /\ recent_blocks = c0.recent_blocks
                    /\ frequency_table = c0.frequency_table
                    /\ all_blocks = c0.all_blocks
                    /\ current_block_index = c0.current_block_index
                    /\ recent_subsequences = c0.recent_subsequences
                    /\ recent_single_tools = c0.recent_single_tools
                    /\ directory = dir
                    /\ call = [op |-> "__init__", arg |-> None]
                    /\ ret = None
                    /\ raised = None
                    /\ threads = <<>>

NextSave ==
    \/ \E failure \in SaveFailures :
           call.op = "__init__" /\ save_containers(failure)
    \/ load_containers(FileNames)

SpecSave == InitSave /\ [][NextSave]_vars

\* Using an instance after a partial load: a fresh instance loads a
\* directory that holds some of the files an instance with the same
\* parameters saved after one history, and is then asked for its selections
\* or given a block, and for its selections after the block.
MaxPartialFields == 2

PartialConfigs == { [k |-> 2, t |-> 1, nr |-> 2, nf |-> 2, ns |-> 1] }

PartialBlocks == { << <<"a">> >>, << <<"c">>, <<" ", "a">> >> }

\* The directories holding config.json and any of the nine other files.
Subdirectories(saved) ==
    { [exists     |-> TRUE,
       files      |-> [f \in present \cup {"config.json"} |-> saved[f]],
       unreadable |-> {}] : present \in SUBSET (FileNames \ {"config.json"}) }

InitPartial ==
    \E c \in PartialConfigs :
        \E history \in Histories(MaxPartialFields) :
            \E dir \in Subdirectories(SavedFilesOf(c,
                           AfterBlocks(c, FreshContainers, history))) :
                /\ k = c.k /\ t = c.t /\ nr = c.nr /\ nf = c.nf /\ ns = c.ns
                /\ name_to_number = <<>>
                /\ number_to_name = <<>>
                /\ next_number = 1
                /\ recent_blocks = <<>>
                /\ frequency_table = <<>>
                /\ all_blocks = <<>>
                /\ current_block_index = 0
                /\ recent_subsequences = <<>>
                /\ recent_single_tools = <<>>
                /\ directory = dir
                /\ call = [op |-> "__init__", arg |-> None]
                /\ ret = None
                /\ raised = None
                /\ threads = <<>>

NextPartial ==
    \/ call.op = "__init__" /\ load_containers(FileNames)
    \/ call.op = "load_containers" /\ get_selections
    \/ \E block \in PartialBlocks : call.op = "load_containers" /\ add_block(block)
    \/ call.op = "add_block" /\ get_selections

SpecPartial == InitPartial /\ [][NextPartial]_vars

\* Loading what an instance with other parameters saved: the saving
\* instance has the widest window and the longest single-tool list, the
\* loading one its own k and ns; the saved history is made of distinct
\* single tools, possibly followed by one block of two fields.
MaxReloadBlocks == 12

MaxReloadWindow == 3

ReloadSaverConfigs == { [k |-> MaxReloadWindow, t |-> 3, nr |-> 2, nf |-> 2, ns |-> 2] }

ReloadLoaderConfigs ==
    { [k |-> window, t |-> 3, nr |-> 2, nf |-> 2, ns |-> tools] :
          window \in 1..MaxReloadWindow, tools \in 0..2 }

\* The tool names "t1", "t2", ...
ReloadTool(i) == <<"t">> \o str_int(i)

ReloadHistories ==
    UNION { { [i \in 1..n |-> <<ReloadTool(i)>>],
              [i \in 1..n |-> <<ReloadTool(i)>>] \o << <<ReloadTool(1), ReloadTool(2)>> >> } :
                n \in 0..MaxReloadBlocks }

InitReload ==
    \E saver \in ReloadSaverConfigs, c \in ReloadLoaderConfigs :
        \E live \in LiveHistories, history \in ReloadHistories :
            \E saved \in {SavedFilesOf(saver, AfterBlocks(saver, FreshContainers, history))} :
                \E c0 \in {AfterBlocks(c, FreshContainers, live)} :
                    /\ k = c.k /\ t = c.t /\ nr = c.nr /\ nf = c.nf /\ ns = c.ns
                    /\ name_to_number = c0.name_to_number
                    /\ number_to_name = c0.number_to_name
                    /\ next_number = c0.next_number
                    /\ recent_blocks = c0.recent_blocks
                    /\ frequency_table = c0.frequency_table
                    /\ all_blocks = c0.all_blocks
                    /\ current_block_index = c0.current_block_index
                    /\ recent_subsequences = c0.recent_subsequences
                    /\ recent_single_tools = c0.recent_single_tools
                    /\ directory = [exists |-> TRUE, files |-> saved, unreadable |-> {}]
                    /\ call = [op |-> "__init__", arg |-> None]
                    /\ ret = None
                    /\ raised = None
                    /\ threads = <<>>

NextReload ==
    \/ load_containers(FileNames)
    \/ Reconstruct(FileNames)

SpecReload == InitReload /\ [][NextReload]_vars

\* The worked example: default arguments, blocks among ExampleBlocks.
InitExample == Construct(DefaultConfig)

NextExample ==
    \/ \E block \in ExampleBlocks :
           Len(all_blocks) < MaxExampleBlocks /\ add_block(block)
    \/ \E n \in 0..MaxExampleN : pick_from_frequency(n)

SpecExample == InitExample /\ [][NextExample]_vars

----------------------------------------------------------------------------
(* The server host (src/server.py).  One EMA instance, _ema, is shared by  *)
(* the thread that serves the HTTP requests one after the other and by the *)
(* background threads run_agent_async starts, one per agent run.  Both     *)
(* call update_ema_containers, which takes no lock; the only lock of the   *)
(* module, _agent_state_lock, guards the agent's state.  A thread is       *)
(* suspended between any two statements, so add_block is taken here        *)
(* statement by statement.  Each statement is taken as one step, so the    *)
(* interleavings here are some of those the threads have, not all.         *)

\* The thread of serve_forever and the agent threads.
MaxAgents == 1

Handler == 0

Agents == 1..MaxAgents

\* The tool names of one call of update_ema_containers: one name, or two that
\* the join separates.
ToolNameLists == { << <<"a">> >>, << <<"b">>, <<"a">> >> }

\* Line 383: block = ", ".join(names), as the fields block.split(',')
\* gives back.
JoinedBlock(names) ==
    [i \in 1..Len(names) |-> IF i = 1 THEN names[i] ELSE <<" ">> \o names[i]]

\* A thread that is not inside update_ema_containers.
Idle == [pc |-> "idle", block |-> <<>>, sequence |-> <<>>]

\* The statements of add_block after the first, in which a thread is inside
\* add_block.
InsideAddBlock == { "all_blocks.append", "current_block_index",
                    "recent_blocks.append", "recent_single_tools",
                    "recent_subsequences.append", "_update_frequency_table",
                    "_evict_from_frequency_table" }

\* main (lines 655-670) on a first start: get_ema() creates the containers
\* directory and the instance EMA(k=10, t=50, nr=2, nf=5, ns=5,
\* containers_dir), whose constructor finds nothing to load, and
\* serve_forever starts; no agent thread exists yet.
InitServer ==
    /\ k = DefaultConfig.k /\ t = DefaultConfig.t
    /\ nr = DefaultConfig.nr /\ nf = DefaultConfig.nf /\ ns = DefaultConfig.ns
    /\ name_to_number = <<>>
    /\ number_to_name = <<>>
    /\ next_number = 1
    /\ recent_blocks = <<>>
    /\ frequency_table = <<>>
    /\ all_blocks = <<>>
    /\ current_block_index = 0
    /\ recent_subsequences = <<>>
    /\ recent_single_tools = <<>>
    /\ directory = [exists |-> TRUE, files |-> <<>>, unreadable |-> {}]
    /\ call = [op |-> "__init__", arg |-> None]
    /\ ret = None
    /\ raised = None
    /\ threads = [th \in {Handler} \cup Agents |-> Idle]

\* The thread th goes to the statement pc.
Goto(th, pc) == threads' = [threads EXCEPT ![th].pc = pc]

\* do_POST with a "steps" field (lines 529-562): the serving thread calls
\* update_ema_containers(steps), which returns at once on an empty list.
do_POST_tools(names) ==
    /\ threads[Handler].pc = "idle"
    /\ threads' = [threads EXCEPT ![Handler] =
                      [pc |-> "add_block", block |-> JoinedBlock(names),
                       sequence |-> <<>>]]
    /\ call' = [op |-> "do_POST", arg |-> Handler]
    /\ ret' = None /\ raised' = None
    /\ UNCHANGED <<params, containers, directory>>

\* do_POST with an "input" field (lines 565-589): run_agent_async starts a
\* daemon thread and the serving thread goes on to the next request.
run_agent_async(agent) ==
    /\ threads[Handler].pc = "idle"
    /\ threads[agent].pc = "idle"
    /\ Goto(agent, "agent_runner")
    /\ call' = [op |-> "run_agent_async", arg |-> agent]
    /\ ret' = None /\ raised' = None
    /\ UNCHANGED <<params, containers, directory>>

\* agent_runner (lines 451-462): the agent has finished and the names of its
\* tools are handed to update_ema_containers.
agent_runner(agent, names) ==
    /\ threads[agent].pc = "agent_runner"
    /\ threads' = [threads EXCEPT ![agent] =
                      [pc |-> "add_block", block |-> JoinedBlock(names),
                       sequence |-> <<>>]]
    /\ call' = [op |-> "agent_runner", arg |-> agent]
    /\ ret' = None /\ raised' = None
    /\ UNCHANGED <<params, containers, directory>>

\* What every statement of a thread leaves alone.
Statement(th, pc) ==
    /\ threads[th].pc = pc
    /\ call' = [op |-> pc, arg |-> th]
    /\ raised' = None
    /\ UNCHANGED <<params, directory>>

\* EMA.py line 95: sequence = self.block_to_sequence(block); line 96 returns
\* when it is empty.
add_block_sequence(th) ==
    /\ Statement(th, "add_block")
    /\ ret' = None
    /\ \E r \in {block_to_sequence(Symbols, threads[th].block)} :
           /\ name_to_number' = r.st.name_to_number
           /\ number_to_name' = r.st.number_to_name
           /\ next_number' = r.st.next_number
           /\ threads' = [threads EXCEPT
                  ![th].sequence = r.sequence,
                  ![th].pc = IF r.sequence = <<>> THEN "save_containers"
                             ELSE "all_blocks.append"]
    /\ UNCHANGED <<recent_blocks, frequency_table, all_blocks, current_block_index,
                   recent_subsequences, recent_single_tools>>

\* Line 100: self.all_blocks.append(block)
add_block_store(th) ==
    /\ Statement(th, "all_blocks.append")
    /\ ret' = None
    /\ all_blocks' = store_block(all_blocks, threads[th].block)
    /\ Goto(th, "current_block_index")
    /\ UNCHANGED <<name_to_number, number_to_name, next_number, recent_blocks,
                   frequency_table, current_block_index, recent_subsequences,
                   recent_single_tools>>

\* Line 101: self.current_block_index = len(self.all_blocks) - 1
add_block_index(th) ==
    /\ Statement(th, "current_block_index")
    /\ ret' = None
    /\ current_block_index' = Len(all_blocks) - 1
    /\ Goto(th, "recent_blocks.append")
    /\ UNCHANGED <<name_to_number, number_to_name, next_number, recent_blocks,
                   frequency_table, all_blocks, recent_subsequences,
                   recent_single_tools>>

\* Line 104: self.recent_blocks.append(sequence)
add_block_recent(th) ==
    /\ Statement(th, "recent_blocks.append")
    /\ ret' = None
    /\ recent_blocks' = DequeAppend(recent_blocks, threads[th].sequence, k)
    /\ Goto(th, "recent_single_tools")
    /\ UNCHANGED <<name_to_number, number_to_name, next_number, frequency_table,
                   all_blocks, current_block_index, recent_subsequences,
                   recent_single_tools>>

\* Lines 108-114: the single-tool list takes the names of the block.
add_block_single_tools(th) ==
    /\ Statement(th, "recent_single_tools")
    /\ ret' = None
    /\ recent_single_tools' =
           track_single_tools(recent_single_tools, tool_names(threads[th].block),
                              ns * SingleToolsFactor)
    /\ Goto(th, "recent_subsequences.append")
    /\ UNCHANGED <<name_to_number, number_to_name, next_number, recent_blocks,
                   frequency_table, all_blocks, current_block_index,
                   recent_subsequences>>

\* Lines 117-120: self.recent_subsequences.append(subsequences)
add_block_subsequences(th) ==
    /\ Statement(th, "recent_subsequences.append")
    /\ ret' = None
    /\ recent_subsequences' =
           DequeAppend(recent_subsequences,
                       generate_subsequences(threads[th].sequence, 1), k)
    /\ Goto(th, "_update_frequency_table")
    /\ UNCHANGED <<name_to_number, number_to_name, next_number, recent_blocks,
                   frequency_table, all_blocks, current_block_index,
                   recent_single_tools>>

\* Line 123: self._update_frequency_table()
add_block_rebuild(th) ==
    /\ Statement(th, "_update_frequency_table")
    /\ ret' = None
    /\ \E r \in {update_frequency_table(Symbols, all_blocks)} :
           /\ frequency_table' = r.table
           /\ name_to_number' = r.st.name_to_number
           /\ number_to_name' = r.st.number_to_name
           /\ next_number' = r.st.next_number
    /\ Goto(th, "_evict_from_frequency_table")
    /\ UNCHANGED <<recent_blocks, all_blocks, current_block_index,
                   recent_subsequences, recent_single_tools>>

\* Lines 126-127: the eviction above the capacity; add_block returns.
add_block_evict(th) ==
    /\ Statement(th, "_evict_from_frequency_table")
    /\ ret' = None
    /\ frequency_table' =
           IF Cardinality(DOMAIN frequency_table) > t
           THEN evict_from_frequency_table(frequency_table, t, current_block_index)
           ELSE frequency_table
    /\ Goto(th, "save_containers")
    /\ UNCHANGED <<name_to_number, number_to_name, next_number, recent_blocks,
                   all_blocks, current_block_index, recent_subsequences,
                   recent_single_tools>>

\* server.py line 389: ema.save_containers(), then generate_recommendations.
update_save(th) ==
    /\ threads[th].pc = "save_containers"
    /\ call' = [op |-> "save_containers", arg |-> th]
    /\ raised' = None /\ ret' = TRUE
    /\ directory' = WrittenUpTo(directory, Len(SaveOrder) + 1, {})
    /\ Goto(th, "pick_from_recent")
    /\ UNCHANGED <<params, containers>>

\* generate_recommendations (lines 301, 322, 337): the three picks with the
\* configured sizes; update_ema_containers returns after the last.
recommend_recent(th) ==
    /\ Statement(th, "pick_from_recent")
    /\ ret' = pick_from_recent_result(nr)
    /\ Goto(th, "get_recent_single_tools")
    /\ UNCHANGED containers

recommend_single_tools(th) ==
    /\ Statement(th, "get_recent_single_tools")
    /\ ret' = get_recent_single_tools_result(ns)
    /\ Goto(th, "pick_from_frequency")
    /\ UNCHANGED containers

recommend_frequency(th) ==
    /\ Statement(th, "pick_from_frequency")
    /\ \E rebuilt \in {rebuild_and_evict(Symbols, all_blocks, t, current_block_index)} :
           /\ frequency_table' = rebuilt.table
           /\ name_to_number' = rebuilt.st.name_to_number
           /\ number_to_name' = rebuilt.st.number_to_name
           /\ next_number' = rebuilt.st.next_number
           /\ ret' = pick_from_frequency_result(rebuilt.st.number_to_name,
                                                rebuilt.table, nf)
    /\ Goto(th, IF th = Handler THEN "idle" ELSE "done")
    /\ UNCHANGED <<recent_blocks, all_blocks, current_block_index,
                   recent_subsequences, recent_single_tools>>

\* One statement of update_ema_containers in the thread th.
update_ema_containers(th) ==
    \/ add_block_sequence(th)
    \/ add_block_store(th)
    \/ add_block_index(th)
    \/ add_block_recent(th)
    \/ add_block_single_tools(th)
    \/ add_block_subsequences(th)
    \/ add_block_rebuild(th)
    \/ add_block_evict(th)
    \/ update_save(th)
    \/ recommend_recent(th)
    \/ recommend_single_tools(th)
    \/ recommend_frequency(th)

\* The requests served: at most MaxPosts tools posts, counted by the blocks
\* stored, and one agent run per agent thread.
MaxPosts == 1

NextServer ==
    \/ \E names \in ToolNameLists :
           /\ Len(all_blocks) < MaxPosts + MaxAgents
           /\ do_POST_tools(names)
    \/ \E agent \in Agents : run_agent_async(agent)
    \/ \E agent \in Agents : \E names \in ToolNameLists :
           agent_runner(agent, names)
    \/ \E th \in {Handler} \cup Agents : update_ema_containers(th)

SpecServer == InitServer /\ [][NextServer]_vars

----------------------------------------------------------------------------
(* Reference notions the properties are stated with.  They are written     *)
(* without the operators above: position sets instead of combinations, a   *)
(* first-difference test instead of the recursive tuple order.             *)

Range(s) == {s[i] : i \in 1..Len(s)}

\* The symbols of a block's names, read off the symbol table.
SeqOf(block) ==
    [i \in 1..Len(tool_names(block)) |-> name_to_number[tool_names(block)[i]]]

\* The elements of seq at the positions I, in order, from position i on.
RECURSIVE Selection(_, _, _)
Selection(seq, I, i) ==
    IF i > Len(seq) THEN <<>>
    ELSE (IF i \in I THEN <<seq[i]>> ELSE <<>>) \o Selection(seq, I, i + 1)

\* The non-empty position sets of seq that select sub.
Embeddings(sub, seq) ==
    {I \in SUBSET (1..Len(seq)) : I # {} /\ Selection(seq, I, 1) = sub}

\* The order-preserving selections of >= 1 elements of seq.
SubsequenceSet(seq) ==
    {Selection(seq, I, 1) : I \in SUBSET (1..Len(seq)) \ {{}}}

\* The distinct subsequences of the whole history.
HistoryKeys == UNION {SubsequenceSet(SeqOf(b)) : b \in Range(all_blocks)}

\* x sorts before y: at the first position where they differ x is smaller,
\* or x ends there.
LexLess(x, y) ==
    \E i \in 1..Len(y) :
        /\ \A j \in 1..(i - 1) : j <= Len(x) /\ x[j] = y[j]
        /\ (i > Len(x) \/ x[i] < y[i])

\* (frequency / (1 + age), subsequence) of x is below that of y, with the
\* entries of table and age = cur - last_usage.
PairBelow(table, cur, x, y) ==
    LET lx == table[x].frequency * (1 + cur - table[y].last_usage)
        ly == table[y].frequency * (1 + cur - table[x].last_usage)
    IN  lx < ly \/ (lx = ly /\ LexLess(x, y))

----------------------------------------------------------------------------
(* The properties.                                                         *)

\* C1: after any add_block call, whatever the blocks and the capacity
\* t >= 0, the frequency table holds at most t entries.
C1_TableWithinCapacity == Cardinality(DOMAIN frequency_table) <= t

\* An add_block left a full table because it evicted: the history has more
\* distinct subsequences than the positive capacity.
C1_Witness ==
    /\ call.op = "add_block"
    /\ t > 0
    /\ Cardinality(DOMAIN frequency_table) = t
    /\ Cardinality(HistoryKeys) > t

\* C2 for the rebuilt table full, of size s, against the table add_block left.
EvictsLowest(full) ==
    LET s       == Cardinality(DOMAIN full)
        removed == DOMAIN full \ DOMAIN frequency_table
    IN  /\ DOMAIN frequency_table \subseteq DOMAIN full
        /\ \A x \in DOMAIN frequency_table : frequency_table[x] = full[x]
        /\ s <= t => removed = {}
        /\ s > t =>
              /\ Cardinality(removed) = s - t
              /\ \A x \in removed : \A y \in DOMAIN frequency_table :
                     PairBelow(full, current_block_index, x, y)

\* C2: when the rebuilt table has size s > t, eviction removes exactly s - t
\* entries, each below every retained one in the order of
\* (frequency / (1 + age), subsequence), equal scores ordered by the tuples.
C2_EvictionRemovesLowest ==
    call.op = "add_block" =>
        EvictsLowest(update_frequency_table(Symbols, all_blocks).table)

\* An eviction that had to break a tie: a removed and a retained entry of
\* equal score, and a retained entry of higher score than a removed one.
EvictionBrokeTie(full) ==
    LET removed == DOMAIN full \ DOMAIN frequency_table
        cur     == current_block_index
    IN  /\ \E x \in removed : \E y \in DOMAIN frequency_table :
               full[x].frequency * (1 + cur - full[y].last_usage)
                   = full[y].frequency * (1 + cur - full[x].last_usage)
        /\ \E x \in removed : \E y \in DOMAIN frequency_table :
               full[x].frequency * (1 + cur - full[y].last_usage)
                   < full[y].frequency * (1 + cur - full[x].last_usage)

C2_Witness ==
    /\ call.op = "add_block"
    /\ t > 0
    /\ Cardinality(DOMAIN frequency_table) = t
    /\ EvictionBrokeTie(update_frequency_table(Symbols, all_blocks).table)

IsRankedPick == call.op \in {"pick_from_recent", "pick_from_frequency"}

\* frequency x length of a returned item.
ItemScore(item) == item.frequency * Len(item.sequence)

\* C3: the lists pick_from_recent(n) and pick_from_frequency(n) return are
\* sorted by frequency x length descending, items of equal score in
\* ascending lexicographic order of their tuples (a proper prefix first).
C3_PicksRanked ==
    IsRankedPick =>
        \A i \in 1..Len(ret) : \A j \in 1..Len(ret) :
            i < j =>
                \/ ItemScore(ret[i]) > ItemScore(ret[j])
                \/ /\ ItemScore(ret[i]) = ItemScore(ret[j])
                   /\ LexLess(ret[i].sequence, ret[j].sequence)

\* A pick returned two items of equal score, the first a proper prefix of
\* the second.
C3_Witness ==
    /\ call.op = "pick_from_recent"
    /\ Len(ret) = 2
    /\ ItemScore(ret[1]) = ItemScore(ret[2])
    /\ Len(ret[1].sequence) < Len(ret[2].sequence)
    /\ ret[1].sequence = SubSeq(ret[2].sequence, 1, Len(ret[1].sequence))

\* The distinct subsequences of the recency window.
WindowKeys == UNION {Range(recent_subsequences[i]) : i \in 1..Len(recent_subsequences)}

\* C4: for n >= 0, pick_from_recent(n) returns min(n, distinct subsequences
\* of the recency window) items and pick_from_frequency(n) returns
\* min(n, size of the evicted frequency table) items.
C4_PickCounts ==
    /\ call.op = "pick_from_recent" =>
           Len(ret) = Min(call.arg, Cardinality(WindowKeys))
    /\ call.op = "pick_from_frequency" =>
           Len(ret) = Min(call.arg, Cardinality(DOMAIN frequency_table))

\* pick_from_frequency(n) returned fewer than n items, and not none: the
\* evicted table holds fewer than n, while the window holds at least n.
C4_Witness ==
    /\ call.op = "pick_from_frequency"
    /\ 0 < Len(ret) /\ Len(ret) < call.arg
    /\ Cardinality(WindowKeys) >= call.arg

\* C5: from an empty instance with t = 50 and k = 10, after add_block of
\* "A, B, C", "A, B" and "A, C", pick_from_frequency(3) returns (1,2) with
\* score 4, (1,3) with score 4 and (1,) with score 3, in this order, the tie
\* at score 3 between (1,) and (1,2,3) going to (1,); A, B, C are 1, 2, 3.
C5_WorkedExample ==
    (/\ all_blocks = <<BlockABC, BlockAB, BlockAC>>
     /\ call = [op |-> "pick_from_frequency", arg |-> 3])
    => /\ t = 50 /\ k = 10
       /\ name_to_number = (<<"A">> :> 1) @@ (<<"B">> :> 2) @@ (<<"C">> :> 3)
       /\ [i \in 1..Len(ret) |-> <<ret[i].sequence, ret[i].score>>]
              = << <<<<1, 2>>, 4>>, <<<<1, 3>>, 4>>, <<<<1>>, 3>> >>
       /\ frequency_table[<<1, 2, 3>>].frequency * Len(<<1, 2, 3>>) = 3

C5_Witness ==
    /\ all_blocks = <<BlockABC, BlockAB, BlockAC>>
    /\ call = [op |-> "pick_from_frequency", arg |-> 3]
    /\ Len(ret) = 3

\* C9: for n >= 0, get_recent_single_tools(n) returns the last n entries of
\* the single-tool list, most recent first, all of them when fewer than n
\* exist: min(n, size of the list) names.
C9_MostRecent ==
    call.op = "get_recent_single_tools" =>
        LET size == Len(recent_single_tools)
            m    == Min(call.arg, size)
        IN  ret = [i \in 1..m |-> recent_single_tools[size + 1 - i]]

\* The blocks (1-based positions in all_blocks) that hold x.
BlocksHolding(x) ==
    {i \in 1..Len(all_blocks) : Embeddings(x, SeqOf(all_blocks[i])) # {}}

\* The occurrences of x in the blocks from position i on: one per position
\* set that selects it.
RECURSIVE OccurrencesFrom(_, _)
OccurrencesFrom(x, i) ==
    IF i > Len(all_blocks) THEN 0
    ELSE Cardinality(Embeddings(x, SeqOf(all_blocks[i]))) + OccurrencesFrom(x, i + 1)

\* No block of the history holds the same tool name twice.
NoRepeatedName ==
    \A b \in Range(all_blocks) :
        Cardinality(Range(tool_names(b))) = Len(tool_names(b))

\* C6 as claimed: after add_block the frequency of every entry is the number
\* of blocks of all_blocks that hold the subsequence, each block counted
\* once, blocks with repeated tool names included.
C6_FrequencyCountsBlocks ==
    call.op = "add_block" =>
        \A x \in DOMAIN frequency_table :
            frequency_table[x].frequency = Cardinality(BlocksHolding(x))

\* C6 as amended: the frequency is the number of occurrences of the
\* subsequence over all_blocks, a block counting once per selection of
\* positions that yields it; it is the number of blocks that hold it when
\* no block repeats a tool name.
C6_FrequencyCountsOccurrences ==
    call.op = "add_block" =>
        \A x \in DOMAIN frequency_table :
            /\ frequency_table[x].frequency = OccurrencesFrom(x, 1)
            /\ NoRepeatedName =>
                   frequency_table[x].frequency = Cardinality(BlocksHolding(x))

\* An entry held by two blocks, one of which holds it twice.
C6_Witness ==
    /\ call.op = "add_block"
    /\ \E x \in DOMAIN frequency_table :
           /\ Cardinality(BlocksHolding(x)) = 2
           /\ frequency_table[x].frequency = 3

\* C7: after add_block the last_usage of every entry is the highest 0-based
\* position in all_blocks of a block that holds the subsequence; every
\* subsequence of the block just added has last_usage = current_block_index.
C7_LastUsageIsLatestBlock ==
    call.op = "add_block" =>
        \A x \in DOMAIN frequency_table :
            /\ BlocksHolding(x) # {}
            /\ \A i \in BlocksHolding(x) : i - 1 <= frequency_table[x].last_usage
            /\ frequency_table[x].last_usage + 1 \in BlocksHolding(x)
            /\ Len(all_blocks) \in BlocksHolding(x) =>
                   frequency_table[x].last_usage = current_block_index

\* An entry held by two blocks and not by the last one, next to an entry of
\* the block just added.
C7_Witness ==
    /\ call.op = "add_block"
    /\ \E x \in DOMAIN frequency_table :
           /\ Cardinality(BlocksHolding(x)) = 2
           /\ frequency_table[x].last_usage < current_block_index
    /\ \E y \in DOMAIN frequency_table :
           frequency_table[y].last_usage = current_block_index

NoDuplicates(s) == \A i \in 1..Len(s) : \A j \in 1..Len(s) : i # j => s[i] # s[j]

\* The entries of s that are not among names, in order.
RECURSIVE Others(_, _)
Others(s, names) ==
    IF s = <<>> THEN <<>>
    ELSE (IF Head(s) \in Range(names) THEN <<>> ELSE <<Head(s)>>)
         \o Others(Tail(s), names)

IsSuffix(s, full) ==
    Len(s) <= Len(full) /\ s = SubSeq(full, Len(full) - Len(s) + 1, Len(full))

\* What add_block of a block with these names does to the single-tool list.
MovesToEnd(old, new, names) ==
    /\ NoDuplicates(new)
    /\ IsSuffix(Others(new, names), Others(old, names))
    /\ SubSeq(new, 1, Len(Others(new, names))) = Others(new, names)
    /\ names # <<>> /\ ns > 0 =>
           /\ new[Len(new)] = names[Len(names)]
           /\ Range(names) \subseteq Range(new)

\* C8: the single-tool list never holds a name twice; add_block of a name
\* already present moves it to the most-recent end, behind the names that
\* are not in the block, whose relative order it leaves unchanged.
C8_SingleToolsMoveToEnd ==
    [][call'.op = "add_block" =>
           MovesToEnd(recent_single_tools, recent_single_tools',
                      tool_names(call'.arg))]_vars

\* add_block moved a name to the end: the last name of the list was in a
\* block older than the last block of the name before it.
C8_Witness ==
    /\ call.op = "add_block"
    /\ Len(recent_single_tools) >= 2
    /\ \E i \in 1..Len(all_blocks) : \E j \in 1..Len(all_blocks) :
           /\ i < j /\ j < Len(all_blocks)
           /\ recent_single_tools[Len(recent_single_tools)]
                  \in Range(tool_names(all_blocks[i]))
           /\ recent_single_tools[Len(recent_single_tools) - 1]
                  \in Range(tool_names(all_blocks[j]))
           /\ recent_single_tools[Len(recent_single_tools) - 1]
                  \notin Range(tool_names(all_blocks[Len(all_blocks)]))

\* The names of the history, in order of appearance, repetitions included.
RECURSIVE NamesSeen(_)
NamesSeen(blocks) ==
    IF blocks = <<>> THEN <<>>
    ELSE tool_names(Head(blocks)) \o NamesSeen(Tail(blocks))

\* How many distinct names have appeared when x appears first.
FirstSeenRank(x, seen) ==
    LET first == CHOOSE i \in 1..Len(seen) :
                     seen[i] = x /\ \A j \in 1..(i - 1) : seen[j] # x
    IN  Cardinality({seen[j] : j \in 1..first})

\* C10: a name resolves to the same id every time, and the n distinct names
\* an initially empty instance has seen have the ids 1..n in the order of
\* their first appearance, across blocks and within a block.
C10_IdsInFirstSeenOrder ==
    LET seen == NamesSeen(all_blocks)
    IN  /\ DOMAIN name_to_number = Range(seen)
        /\ \A x \in Range(seen) : name_to_number[x] = FirstSeenRank(x, seen)
        /\ {name_to_number[x] : x \in Range(seen)} = 1..Cardinality(Range(seen))
        /\ \A i \in 1..Len(recent_blocks) :
               recent_blocks[i] =
                   SeqOf(all_blocks[Len(all_blocks) - Len(recent_blocks) + i])

\* Three names were seen, the alphabetically last one first, and a name was
\* resolved again in a later block that is still in the recency window.
C10_Witness ==
    /\ call.op = "add_block"
    /\ Cardinality(DOMAIN name_to_number) = 3
    /\ name_to_number[<<"c">>] = 1
    /\ Len(recent_blocks) >= 2
    /\ \E x \in DOMAIN name_to_number :
           /\ x \in Range(tool_names(all_blocks[1]))
           /\ x \in Range(tool_names(all_blocks[Len(all_blocks)]))
           /\ Len(all_blocks) > 1

----------------------------------------------------------------------------
(* The symbol table.                                                       *)

\* names and numbers are inverse bijections and next exceeds every id.
InverseBijections(names, numbers, next) ==
    /\ DOMAIN numbers = {names[x] : x \in DOMAIN names}
    /\ \A x \in DOMAIN names : numbers[names[x]] = x
    /\ \A x \in DOMAIN names : \A y \in DOMAIN names : names[x] = names[y] => x = y
    /\ \A x \in DOMAIN names : names[x] >= 1 /\ names[x] < next

C11_TableIsBijection ==
    /\ InverseBijections(name_to_number, number_to_name, next_number)
    /\ DOMAIN name_to_number = Range(NamesSeen(all_blocks))

C11_IdsKept ==
    /\ next_number' >= next_number
    /\ \A x \in DOMAIN name_to_number :
           x \in DOMAIN name_to_number' /\ name_to_number'[x] = name_to_number[x]
    /\ \A i \in DOMAIN number_to_name :
           i \in DOMAIN number_to_name' /\ number_to_name'[i] = number_to_name[i]

\* C11: in every state reached by add_block and pick calls name_to_number
\* and number_to_name are inverse bijections over the names seen so far and
\* next_number exceeds every assigned id; in every step next_number does not
\* decrease and no assigned id changes its name.
C11_SymbolTable == []C11_TableIsBijection /\ [][C11_IdsKept]_vars

\* Three names have ids and a call that rebuilds the table has run since.
C11_Witness ==
    /\ call.op = "get_selections"
    /\ Cardinality(DOMAIN name_to_number) = 3
    /\ next_number = 4
    /\ Len(all_blocks) >= 2

----------------------------------------------------------------------------
(* The subsequence generator.                                              *)

\* C12: for a sequence of n pairwise distinct symbols
\* generate_subsequences(sequence, 1) returns exactly 2^n - 1 tuples, each an
\* order-preserving selection of the sequence's elements, none of them
\* twice and none of them empty; they are all the selections there are.
C12_AllSelections ==
    (/\ call.op = "generate_subsequences"
     /\ call.arg.min_length = 1
     /\ NoDuplicates(call.arg.sequence))
    => LET sequence == call.arg.sequence
       IN  /\ Len(ret) = 2 ^ Len(sequence) - 1
           /\ NoDuplicates(ret)
           /\ \A i \in 1..Len(ret) :
                  ret[i] # <<>> /\ Embeddings(ret[i], sequence) # {}
           /\ Range(ret) = SubsequenceSet(sequence)

\* The fifteen subsequences of four distinct symbols were generated.
C12_Witness ==
    /\ call.op = "generate_subsequences"
    /\ call.arg.min_length = 1
    /\ Len(call.arg.sequence) = 4
    /\ NoDuplicates(call.arg.sequence)
    /\ Len(ret) = 15

----------------------------------------------------------------------------
(* The blocks without a name.                                              *)

\* Every field of the block is empty or made of blanks only.
Blank(block) ==
    \A i \in 1..Len(block) : \A j \in 1..Len(block[i]) : block[i][j] = " "

\* C13: add_block on a block with no non-blank name (the empty string, only
\* commas, only blanks) changes none of the symbol table, next_number,
\* all_blocks, current_block_index, the recency window, the frequency table
\* and the single-tool list.
C13_BlankBlockIsNoOp ==
    [][(call'.op = "add_block" /\ Blank(call'.arg)) => UNCHANGED containers]_vars

\* A block of empty fields was added to an instance that holds a block.
C13_Witness ==
    /\ call.op = "add_block"
    /\ call.arg = << <<>>, <<>> >>
    /\ Len(all_blocks) = 2
    /\ frequency_table # <<>>

----------------------------------------------------------------------------
(* The recency window.                                                     *)

\* The window has min(k, m) entries and entry i is the list of the block that
\* arrived i-th among the last min(k, m).
C14_WindowAligned ==
    LET m == Len(all_blocks)
        w == Len(recent_subsequences)
    IN  /\ w = Min(k, m)
        /\ w <= k
        /\ \A i \in 1..w :
               LET sequence == SeqOf(all_blocks[m - w + i])
               IN  /\ recent_subsequences[i] = generate_subsequences(sequence, 1)
                   /\ Range(recent_subsequences[i]) = SubsequenceSet(sequence)

\* A block entering a full window pushes out the oldest entry only.
C14_DropsOldest ==
    (all_blocks' # all_blocks /\ Len(recent_subsequences) = k)
    => /\ Len(recent_subsequences') = k
       /\ SubSeq(recent_subsequences', 1, k - 1) = Tail(recent_subsequences)

\* C14: after m add_block calls with a non-empty block the recency window
\* holds exactly the subsequence lists of the last min(k, m) blocks, in
\* arrival order, never more than k of them, and the entry dropped when the
\* window overflows is the oldest one.
C14_RecencyWindow == []C14_WindowAligned /\ [][C14_DropsOldest]_vars

\* A fourth block entered a window of two.
C14_Witness ==
    /\ call.op = "add_block"
    /\ k = 2
    /\ Len(all_blocks) = 4
    /\ Len(recent_subsequences) = 2
    /\ recent_subsequences[1] # recent_subsequences[2]

----------------------------------------------------------------------------
(* The window aggregate.                                                   *)

\* The positions of the window's lists that hold x.
WindowPositions(x) ==
    {p \in UNION {{<<i, j>> : j \in 1..Len(recent_subsequences[i])} :
                      i \in 1..Len(recent_subsequences)} :
         recent_subsequences[p[1]][p[2]] = x}

\* C15: get_recent_subsequences maps each distinct subsequence of the
\* recency window to the number of its occurrences over all the lists of the
\* window, one per position, so that a subsequence twice in the list of one
\* block counts twice; pick_from_recent reports these numbers.
C15_WindowCountsPositions ==
    /\ DOMAIN get_recent_subsequences = WindowKeys
    /\ \A x \in WindowKeys :
           get_recent_subsequences[x] = Cardinality(WindowPositions(x))
    /\ call.op = "pick_from_recent"
       => \A i \in 1..Len(ret) :
              /\ ret[i].sequence \in WindowKeys
              /\ ret[i].frequency = Cardinality(WindowPositions(ret[i].sequence))

\* pick_from_recent reported a subsequence with three occurrences: twice in
\* the list of one block of the window and once in the list of the other.
C15_Witness ==
    /\ call.op = "pick_from_recent"
    /\ Len(recent_subsequences) = 2
    /\ Len(ret) >= 1
    /\ ret[1].frequency = 3
    /\ \E p \in WindowPositions(ret[1].sequence) : p[1] = 1
    /\ \E p \in WindowPositions(ret[1].sequence) : p[1] = 2

----------------------------------------------------------------------------
(* The keys of the frequency table.                                        *)

----------------------------------------------------------------------------
(* The picks as reads.                                                     *)

\* A call that rebuilds and evicts leaves the table as it found it, and the
\* same call made again returns what it returned before.
C17_RebuildChangesNothing ==
    /\ call'.op \in {"pick_from_frequency", "get_selections"}
       => frequency_table' = frequency_table
    /\ (/\ call' = call
        /\ call.op \in {"pick_from_recent", "pick_from_frequency",
                        "get_recent_single_tools", "get_selections"})
       => ret' = ret

\* C17: rebuild-and-evict is idempotent: pick_from_frequency and
\* get_selections, called any number of times with no add_block in between,
\* leave the frequency table equal to the one the last add_block left, and
\* every repetition of a call returns the same lists.
C17_PicksIdempotent == [][C17_RebuildChangesNothing]_vars

\* get_selections rebuilt and evicted twice over a history with more than t
\* distinct subsequences and returned what survived.
C17_Witness ==
    /\ call.op = "get_selections"
    /\ t > 0
    /\ Cardinality(HistoryKeys) > t
    /\ Cardinality(DOMAIN frequency_table) = t
    /\ ret.from_frequency # <<>>

\* What a pick may change: pick_from_recent and get_recent_single_tools
\* nothing, pick_from_frequency and get_selections the frequency table only.
C18_PickFrame ==
    /\ call'.op \in {"pick_from_recent", "get_recent_single_tools"}
       => UNCHANGED <<params, containers>>
    /\ call'.op \in {"pick_from_frequency", "get_selections"}
       => UNCHANGED <<params, name_to_number, number_to_name, next_number,
                      recent_blocks, all_blocks, current_block_index,
                      recent_subsequences, recent_single_tools>>

\* C18: the picks are reads: pick_from_recent and get_recent_single_tools
\* change no container, pick_from_frequency and get_selections change no
\* container other than the frequency table (which they rebuild).
C18_PicksAreReads == [][C18_PickFrame]_vars

\* C19: on an instance to which no block was added pick_from_recent,
\* pick_from_frequency and get_recent_single_tools return the empty list and
\* get_selections returns three empty lists; none of them fails.
C19_EmptyInstancePicksNothing ==
    all_blocks = <<>>
    => /\ call.op \in {"pick_from_recent", "pick_from_frequency",
                       "get_recent_single_tools"} => ret = <<>>
       /\ call.op = "get_selections"
          => ret = [from_recent |-> <<>>, from_frequency |-> <<>>,
                    single_tools |-> <<>>]

\* get_selections ran on an instance without a block, with the default sizes.
C19_Witness ==
    /\ all_blocks = <<>>
    /\ call.op = "get_selections"
    /\ nr = 2 /\ nf = 5 /\ ns = 5
    /\ ret.from_frequency = <<>>

----------------------------------------------------------------------------
(* Persistence.                                                            *)

\* An instance built from the directory that the previous call saved, all
\* files present, has the containers of the instance that saved.
C20_LoadRestores ==
    (/\ call.op = "save_containers"
     /\ call'.op = "__init__"
     /\ call'.arg = FileNames)
    => /\ name_to_number' = name_to_number
       /\ number_to_name' = number_to_name
       /\ next_number' = next_number
       /\ recent_blocks' = recent_blocks
       /\ frequency_table' = frequency_table
       /\ all_blocks' = all_blocks
       /\ current_block_index' = current_block_index
       /\ recent_subsequences' = recent_subsequences
       /\ recent_single_tools' = recent_single_tools

\* C20: save_containers followed by load_containers into a fresh instance
\* built with the same parameters reproduces an equal state: both symbol maps
\* with integer ids, next_number, the recency window of block tuples, the
\* frequency table with tuple keys, frequency and last_usage, the block
\* history, the current block index, the recency subsequence cache and the
\* single-tool list, the sequences in the same order.
C20_SaveLoadRoundTrip == [][C20_LoadRestores]_vars

\* An instance was built from the saved files of one that had two blocks,
\* two names, a full recency window and a table cut down to t entries.
C20_Witness ==
    /\ directory.exists
    /\ call.op = "__init__"
    /\ call.arg = FileNames
    /\ directory.files["all_blocks.json"] = all_blocks
    /\ directory.files["config.json"] = [k |-> k, t |-> t, nr |-> nr, nf |-> nf, ns |-> ns]
    /\ Len(all_blocks) = 2
    /\ Len(recent_subsequences) = 2
    /\ Cardinality(DOMAIN name_to_number) = 2
    /\ DOMAIN number_to_name = {1, 2}
    /\ Cardinality(DOMAIN frequency_table) = t
    /\ Cardinality(HistoryKeys) > t
    /\ recent_single_tools # <<>>

----------------------------------------------------------------------------
\* C25: the block history is append-only.  Every add_block with at least
\* one non-blank name appends exactly the given block at the end and leaves
\* current_block_index at len(all_blocks) - 1; no call of add_block or of a
\* pick changes or removes an entry the history already holds (a load
\* replaces the history by the file's).
C25_Appends ==
    /\ call'.op \notin {"load_containers", "__init__"}
           => /\ Len(all_blocks') >= Len(all_blocks)
              /\ \A i \in 1..Len(all_blocks) : all_blocks'[i] = all_blocks[i]
    /\ (call'.op = "add_block" /\ ~Blank(call'.arg))
           => /\ Len(all_blocks') = Len(all_blocks) + 1
              /\ all_blocks'[Len(all_blocks')] = call'.arg
              /\ current_block_index' = Len(all_blocks') - 1

C25_AppendOnly == [][C25_Appends]_vars

\* A second block has just been stored behind the first.
C25_Witness ==
    /\ call.op = "add_block" /\ ~Blank(call.arg)
    /\ Len(all_blocks) = 2
    /\ all_blocks[2] = call.arg /\ all_blocks[1] # call.arg
    /\ current_block_index = 1

----------------------------------------------------------------------------
\* The last position at which the name x appears in the sequence seen.
LastSeen(x, seen) ==
    CHOOSE i \in 1..Len(seen) :
        seen[i] = x /\ \A j \in (i + 1)..Len(seen) : seen[j] # x

\* C27: after any sequence of add_block calls the single-tool list equals
\* the least-recently-used reference: with d distinct names in the history,
\* it holds the min(10 * ns, d) most recently used of them, ordered by their
\* last occurrence (names of one block by their position in it), the most
\* recent last; its length never exceeds 10 * ns.
C27_SingleToolsAreLRU ==
    LET seen == NamesSeen(all_blocks)
        distinct == Range(seen)
        held == Min(SingleToolsFactor * ns, Cardinality(distinct))
    IN  /\ Len(recent_single_tools) = held
        /\ Len(recent_single_tools) <= SingleToolsFactor * ns
        /\ \A i \in 1..held :
               /\ recent_single_tools[i] \in distinct
               /\ Cardinality({y \in distinct :
                      LastSeen(y, seen) > LastSeen(recent_single_tools[i], seen)})
                      = held - i

\* Eleven distinct names have been used and the list holds ten of them, the
\* name used longest ago being the one that is gone.
C27_Witness ==
    /\ ns = 1
    /\ Cardinality(Range(NamesSeen(all_blocks))) = 11
    /\ Len(recent_single_tools) = 10
    /\ Len(all_blocks) = 4
    /\ \E x \in Range(NamesSeen(all_blocks)) : x \notin Range(recent_single_tools)

----------------------------------------------------------------------------
\* The ranked items a call has returned: those of pick_from_recent, those of
\* pick_from_frequency, those of get_selections.
RecentItemsReturned ==
    IF call.op = "pick_from_recent" THEN Range(ret)
    ELSE IF call.op = "get_selections" THEN Range(ret.from_recent)
    ELSE {}

FrequencyItemsReturned ==
    IF call.op = "pick_from_frequency" THEN Range(ret)
    ELSE IF call.op = "get_selections" THEN Range(ret.from_frequency)
    ELSE {}

\* The item's length is the number of its symbols, its score its frequency
\* times its length, and its names, split at the commas and trimmed, are the
\* names of its symbols in order.
SelfConsistent(item) ==
    /\ item.length = Len(item.sequence)
    /\ item.score = item.frequency * item.length
    /\ Parts(Split(item.names, ",")) =
           [i \in 1..Len(item.sequence) |-> number_to_name[item.sequence[i]]]

\* C28: every item returned by pick_from_recent and pick_from_frequency is
\* self-consistent: length is the number of symbols, score is frequency times
\* length, names is the comma-joined names of the symbols in order; the items
\* of pick_from_frequency also carry last_usage, that of the table's entry.
C28_ItemsSelfConsistent ==
    /\ \A item \in RecentItemsReturned :
           /\ DOMAIN item = {"sequence", "names", "frequency", "length", "score"}
           /\ SelfConsistent(item)
    /\ \A item \in FrequencyItemsReturned :
           /\ DOMAIN item = {"sequence", "names", "frequency", "length", "score",
                             "last_usage"}
           /\ SelfConsistent(item)
           /\ item.last_usage = frequency_table[item.sequence].last_usage

\* get_selections has returned, from the window and from the table, an item
\* of two symbols or more counted more than once.
C28_Witness ==
    /\ call.op = "get_selections"
    /\ \E item \in RecentItemsReturned : item.length >= 2 /\ item.frequency >= 2
    /\ \E item \in FrequencyItemsReturned :
           item.length >= 2 /\ item.frequency >= 2 /\ item.score >= 4

----------------------------------------------------------------------------
\* The eviction of the last add_block removed x and retained y, x having the
\* strictly higher frequency in the rebuilt table full.
EvictedMoreFrequent(full, x, y) ==
    /\ x \in DOMAIN full \ DOMAIN frequency_table
    /\ y \in DOMAIN frequency_table
    /\ full[x].frequency > full[y].frequency

\* C29: eviction can remove an entry whose frequency is strictly higher than
\* that of an entry it retains, and does so only because the removed entry
\* is older: whenever it happens, the age of the removed entry is larger
\* than the age of the retained one.
C29_OlderEvictedDespiteFrequency ==
    call.op = "add_block" =>
        \A full \in {update_frequency_table(Symbols, all_blocks).table} :
            \A x \in DOMAIN full, y \in DOMAIN full :
                EvictedMoreFrequent(full, x, y)
                    => current_block_index - full[x].last_usage
                           > current_block_index - full[y].last_usage

\* The state the claim says is reachable: an eviction has removed an entry
\* of higher frequency and strictly lower score than one it has retained.
C29_Witness ==
    /\ call.op = "add_block"
    /\ t > 0
    /\ \E full \in {update_frequency_table(Symbols, all_blocks).table} :
           \E x \in DOMAIN full, y \in DOMAIN full :
               /\ EvictedMoreFrequent(full, x, y)
               /\ full[x].frequency * (1 + current_block_index - full[y].last_usage)
                      < full[y].frequency * (1 + current_block_index - full[x].last_usage)

----------------------------------------------------------------------------
\* get_selections has returned one object with the three lists, each what
\* the pick of the configured size returns, and none longer than that size.
C30_ThreePicks ==
    call.op = "get_selections" =>
        /\ DOMAIN ret = {"from_recent", "from_frequency", "single_tools"}
        /\ ret.from_recent = pick_from_recent_result(nr)
        /\ ret.from_frequency =
               pick_from_frequency_result(number_to_name, frequency_table, nf)
        /\ ret.single_tools = get_recent_single_tools_result(ns)
        /\ Len(ret.from_recent) <= nr
        /\ Len(ret.from_frequency) <= nf
        /\ Len(ret.single_tools) <= ns

\* The pick called with the configured size right after get_selections
\* returns the list get_selections has returned.
C30_PickAgrees ==
    call.op = "get_selections" =>
        /\ (call'.op = "pick_from_recent" /\ call'.arg = nr)
               => ret' = ret.from_recent
        /\ (call'.op = "pick_from_frequency" /\ call'.arg = nf)
               => ret' = ret.from_frequency
        /\ (call'.op = "get_recent_single_tools" /\ call'.arg = ns)
               => ret' = ret.single_tools

\* C30: get_selections returns one object with from_recent equal to
\* pick_from_recent(nr), from_frequency equal to pick_from_frequency(nf) and
\* single_tools equal to most_recent(ns), so the lists hold at most nr, nf
\* and ns items.
C30_SelectionsAreThePicks == []C30_ThreePicks /\ [][C30_PickAgrees]_vars

\* Each of the three lists is cut at its configured size: the window, the
\* table and the single-tool list hold more than was returned.
C30_Witness ==
    /\ call.op = "get_selections"
    /\ Len(ret.from_recent) = nr /\ Cardinality(WindowKeys) > nr
    /\ Len(ret.from_frequency) = nf /\ Cardinality(DOMAIN frequency_table) > nf
    /\ Len(ret.single_tools) = ns /\ Len(recent_single_tools) > ns

----------------------------------------------------------------------------
\* The directory holds files as save_containers writes them: every one
\* readable, the keys of the frequency table lists of ids.
Intact(dir) ==
    /\ dir.unreadable = {}
    /\ "frequency_table.json" \in DOMAIN dir.files
           => \A key_str \in DOMAIN dir.files["frequency_table.json"] :
                  IsListLiteral(key_str)

\* The last entries of the list items, at most maxlen of them.
LastOf(items, maxlen) ==
    [i \in 1..Min(maxlen, Len(items)) |->
        items[Len(items) - Min(maxlen, Len(items)) + i]]

\* The container named by the file f holds, after the step, what the file of
\* the directory holds.
HoldsFile(f) ==
    LET content == directory.files[f]
    IN  CASE f = "name_to_number.json" -> name_to_number' = content
          [] f = "number_to_name.json" ->
                 /\ DOMAIN content = {str_int(i) : i \in DOMAIN number_to_name'}
                 /\ \A i \in DOMAIN number_to_name' :
                        number_to_name'[i] = content[str_int(i)]
          [] f = "next_number.json" -> next_number' = content
          [] f = "recent_blocks.json" -> recent_blocks' = LastOf(content, k)
          [] f = "frequency_table.json" ->
                 /\ DOMAIN content = {str_list(key) : key \in DOMAIN frequency_table'}
                 /\ \A key \in DOMAIN frequency_table' :
                        frequency_table'[key] = content[str_list(key)]
          [] f = "all_blocks.json" -> all_blocks' = content
          [] f = "current_block_index.json" -> current_block_index' = content
          [] f = "recent_subsequences.json" ->
                 recent_subsequences' = LastOf(content, k)
          [] f = "recent_single_tools.json" ->
                 recent_single_tools' = LastOf(content, SingleToolsFactor * ns)

\* The container named by the file f holds, after the step, the value
\* before of the record c.
KeepsValue(f, c) ==
    CASE f = "name_to_number.json" -> name_to_number' = c.name_to_number
      [] f = "number_to_name.json" -> number_to_name' = c.number_to_name
      [] f = "next_number.json" -> next_number' = c.next_number
      [] f = "recent_blocks.json" -> recent_blocks' = c.recent_blocks
      [] f = "frequency_table.json" -> frequency_table' = c.frequency_table
      [] f = "all_blocks.json" -> all_blocks' = c.all_blocks
      [] f = "current_block_index.json" ->
             current_block_index' = c.current_block_index
      [] f = "recent_subsequences.json" ->
             recent_subsequences' = c.recent_subsequences
      [] f = "recent_single_tools.json" ->
             recent_single_tools' = c.recent_single_tools

\* The nine files that name a container.
ContainerFiles == FileNames \ {"config.json"}

C21_LoadsWhatIsThere ==
    (directory.exists /\ Intact(directory)) =>
        /\ call'.op = "load_containers" =>
               /\ raised' = None /\ ret' = TRUE
               /\ \A f \in ContainerFiles :
                      IF f \in DOMAIN directory.files THEN HoldsFile(f)
                      ELSE KeepsValue(f, Containers)
        /\ call'.op = "__init__" =>
               \A f \in ContainerFiles :
                   IF f \in DOMAIN directory.files THEN HoldsFile(f)
                   ELSE KeepsValue(f, FreshContainers)

\* C21: load_containers tolerates any subset of the persisted files being
\* absent: a container whose file is missing keeps the value it had before
\* the load (its initial value on a fresh instance), a container whose file
\* is present is replaced by the file's content, and the load reports
\* success.
C21_LoadToleratesMissingFiles == [][C21_LoadsWhatIsThere]_vars

\* A load that succeeded on an instance holding a block: the history, whose
\* file is absent, is the instance's own, while the symbol table is the
\* file's and differs from the one the instance had built.
C21_Witness ==
    /\ call.op = "load_containers" /\ ret = TRUE
    /\ "all_blocks.json" \notin DOMAIN directory.files
    /\ "recent_blocks.json" \notin DOMAIN directory.files
    /\ all_blocks # <<>> /\ recent_blocks # <<>>
    /\ "name_to_number.json" \in DOMAIN directory.files
    /\ name_to_number = directory.files["name_to_number.json"]
    /\ DOMAIN name_to_number = {<<"a">>}
    /\ <<"b">> \in Range(recent_single_tools)

----------------------------------------------------------------------------
\* C22: when one persisted file is malformed, load_containers skips only
\* that container and still loads every other container whose file is
\* present and well formed, whatever the place of the malformed file in the
\* order of the reads, and returns a boolean without raising.
C22_SkipsOnlyTheMalformed ==
    (/\ call'.op = "load_containers"
     /\ directory.exists
     /\ Cardinality(directory.unreadable) = 1
     /\ Intact([directory EXCEPT !.unreadable = {}]))
        => /\ raised' = None
           /\ ret' \in BOOLEAN
           /\ \A f \in ContainerFiles \cap DOMAIN directory.files :
                  IF f \in directory.unreadable THEN KeepsValue(f, Containers)
                  ELSE HoldsFile(f)

C22_MalformedFileSkipped == [][C22_SkipsOnlyTheMalformed]_vars

----------------------------------------------------------------------------
\* C23: when a serialized key of the frequency table can be parsed neither
\* by the structured parse nor by the fallback, load_containers puts the
\* empty tuple in its place and goes on with the remaining keys and
\* containers: the load is not aborted.
C23_SubstitutesEmptyTuple ==
    (/\ call'.op = "load_containers"
     /\ directory.exists
     /\ directory.unreadable = {}
     /\ "frequency_table.json" \in DOMAIN directory.files
     /\ \E key_str \in DOMAIN directory.files["frequency_table.json"] :
            KeyRaises(key_str))
        => /\ raised' = None
           /\ ret' = TRUE
           /\ <<>> \in DOMAIN frequency_table'
           /\ \A key_str \in DOMAIN directory.files["frequency_table.json"] :
                  IsListLiteral(key_str)
                      => ParseKey(key_str) \in DOMAIN frequency_table'
           /\ \A f \in (ContainerFiles \ {"frequency_table.json"})
                           \cap DOMAIN directory.files : HoldsFile(f)

C23_UnparsableKeyTolerated == [][C23_SubstitutesEmptyTuple]_vars

----------------------------------------------------------------------------
\* C24: a failure at any I/O step of save_containers (creating the
\* directory, writing any file) or of load_containers is caught: the
\* function returns False and no exception reaches the caller.
C24_FailureReturnsFalse ==
    /\ (call'.op = "save_containers" /\ call'.arg # "none")
           => raised' = None /\ ret' = FALSE
    /\ (/\ call'.op = "load_containers"
        /\ directory.exists
        /\ directory.unreadable \cap ContainerFiles # {})
           => raised' = None /\ ret' = FALSE

C24_IOFailuresCaught == [][C24_FailureReturnsFalse]_vars

\* The threads that have entered add_block and not left it.
InAddBlock == { th \in DOMAIN threads : threads[th].pc \in InsideAddBlock }

\* C26: the server serializes its calls into the shared EMA instance: whether
\* started by the request handler or by a background agent thread, no two
\* executions of add_block (nor of save_containers or the picks) overlap,
\* so at no time are two threads inside add_block.
C26_CallsSerialized == Cardinality(InAddBlock) <= 1

----------------------------------------------------------------------------
(* The entries of the frequency table.                                     *)

\* C31: in every state add_block and the picks reach, every entry of the
\* frequency table has frequency >= 1 and 0 <= last_usage <=
\* current_block_index, so that the age the estimation function computes is
\* never negative and its divisor 1 + age is at least 1.
C31_EntriesWithinHistory ==
    \A x \in DOMAIN frequency_table :
        /\ frequency_table[x].frequency >= 1
        /\ 0 <= frequency_table[x].last_usage
        /\ frequency_table[x].last_usage <= current_block_index
        /\ 1 + (current_block_index - frequency_table[x].last_usage) >= 1

\* A pick rebuilt a table with an entry of the newest block and an entry
\* last used by an older one.
C31_Witness ==
    /\ call.op = "pick_from_frequency"
    /\ \E x \in DOMAIN frequency_table :
           frequency_table[x].last_usage = current_block_index
    /\ \E x \in DOMAIN frequency_table :
           /\ frequency_table[x].last_usage < current_block_index
           /\ frequency_table[x].frequency >= 2

----------------------------------------------------------------------------
(* Eviction and the counts of the whole history.                           *)

\* The uncapped table of the whole history: for every subsequence of a
\* block, its occurrences over all_blocks and the 0-based position of the
\* last block that holds it.
FullHistoryTable ==
    [x \in HistoryKeys |->
        [frequency  |-> OccurrencesFrom(x, 1),
         last_usage |-> CHOOSE i \in 0..(Len(all_blocks) - 1) :
                            /\ i + 1 \in BlocksHolding(x)
                            /\ \A j \in BlocksHolding(x) : j <= i + 1]]

\* The cap highest entries of the table full in the order of
\* (frequency / (1 + age), subsequence).
HighestEntries(full, cap, cur) ==
    {x \in DOMAIN full :
        Cardinality({y \in DOMAIN full : PairBelow(full, cur, x, y)}) < cap}

\* The table an instance of capacity cap holds after the blocks of
\* all_blocks.
TableOfCapacity(cap) ==
    rebuild_and_evict(Symbols, all_blocks, cap, current_block_index).table

\* The capacities instances are compared at.
MaxCapacity == 4

Capacities == 0..MaxCapacity

\* C32: eviction never loses counts: after add_block the bounded table is
\* the uncapped table of the whole history restricted to its t highest
\* entries by (estimation score, tuple), so that a retained entry carries its
\* full-history frequency and last_usage even when it was evicted earlier,
\* and instances that differ only in t (their tables are TableOfCapacity(cap),
\* the one rebuilt table evicted down to cap) agree on every key both tables
\* hold.
C32_EvictionKeepsCounts ==
    call.op = "add_block" =>
        /\ \E full \in {FullHistoryTable} :
               /\ DOMAIN frequency_table
                      = HighestEntries(full, t, current_block_index)
               /\ \A x \in DOMAIN frequency_table : frequency_table[x] = full[x]
        /\ \E rebuilt \in {update_frequency_table(Symbols, all_blocks)} :
               \A cap \in Capacities :
                   \E other \in {evict_above(rebuilt, cap, current_block_index).table} :
                       \A x \in DOMAIN frequency_table \cap DOMAIN other :
                           other[x] = frequency_table[x]

\* The table add_block left after the first j blocks of the history.
TableAfter(j) ==
    rebuild_and_evict(SymbolsOf(FreshContainers), SubSeq(all_blocks, 1, j),
                      t, j - 1).table

\* An entry that an earlier add_block evicted is retained now with the
\* count of two blocks, next to a table of another capacity that shares a
\* key with this one and holds a key this one evicted.
C32_Witness ==
    /\ call.op = "add_block"
    /\ \E j \in 1..(Len(all_blocks) - 1) :
           \E x \in DOMAIN frequency_table :
               /\ Embeddings(x, SeqOf(all_blocks[j])) # {}
               /\ x \notin DOMAIN TableAfter(j)
               /\ frequency_table[x].frequency = 2
    /\ \E cap \in Capacities :
           /\ DOMAIN TableOfCapacity(cap) \cap DOMAIN frequency_table # {}
           /\ DOMAIN TableOfCapacity(cap) \ DOMAIN frequency_table # {}

----------------------------------------------------------------------------
(* Dominance under eviction.                                               *)

\* In the table full, x is at least as frequent and at least as recently
\* used as y, and more so in one of the two.
Dominates(full, x, y) ==
    /\ full[x].frequency >= full[y].frequency
    /\ full[x].last_usage >= full[y].last_usage
    /\ \/ full[x].frequency > full[y].frequency
       \/ full[x].last_usage > full[y].last_usage

\* C33 for the rebuilt table full against the table the eviction left.
RetainsDominating(full) ==
    \A x \in DOMAIN full : \A y \in DOMAIN full :
        (Dominates(full, x, y) /\ y \in DOMAIN frequency_table)
            => x \in DOMAIN frequency_table

\* C33: eviction respects dominance: if entry X has frequency >= that of
\* entry Y and last_usage >= that of Y, one of the two strictly, then after
\* any eviction Y retained implies X retained.
C33_EvictionRespectsDominance ==
    call.op = "add_block" =>
        RetainsDominating(update_frequency_table(Symbols, all_blocks).table)

\* The eviction told dominating from dominated entries: the table full
\* lost an entry that a retained one dominates by its frequency, and one
\* that a retained one dominates by its last usage.
Separated(full) ==
    /\ \E x \in DOMAIN frequency_table : \E y \in DOMAIN full \ DOMAIN frequency_table :
           /\ full[x].frequency > full[y].frequency
           /\ full[x].last_usage = full[y].last_usage
    /\ \E x \in DOMAIN frequency_table : \E y \in DOMAIN full \ DOMAIN frequency_table :
           /\ full[x].frequency = full[y].frequency
           /\ full[x].last_usage > full[y].last_usage

C33_Witness ==
    /\ call.op = "add_block"
    /\ t > 0
    /\ Separated(update_frequency_table(Symbols, all_blocks).table)

----------------------------------------------------------------------------
(* Where the returned sequences come from.                                 *)

\* The blocks of all_blocks the recency window covers: the last k.
LastBlocks ==
    {all_blocks[i] : i \in (Max(Len(all_blocks) - k, 0) + 1)..Len(all_blocks)}

\* C34: every sequence pick_from_frequency returns is an order-preserving
\* subsequence of a block of all_blocks; every sequence pick_from_recent
\* returns is an order-preserving subsequence of one of the last k blocks,
\* and the frequency reported with it is at most its frequency over the
\* whole history.
C34_PicksComeFromBlocks ==
    /\ call.op = "pick_from_frequency" =>
           \A i \in 1..Len(ret) :
               \E b \in Range(all_blocks) :
                   Embeddings(ret[i].sequence, SeqOf(b)) # {}
    /\ call.op = "pick_from_recent" =>
           \A i \in 1..Len(ret) :
               /\ \E b \in LastBlocks :
                      Embeddings(ret[i].sequence, SeqOf(b)) # {}
               /\ ret[i].frequency <= OccurrencesFrom(ret[i].sequence, 1)

\* pick_from_recent after a block has left the window: a subsequence of the
\* history is in no block of the window, and a returned one is reported
\* with less than its frequency over the whole history.
C34_Witness ==
    /\ call.op = "pick_from_recent"
    /\ Len(all_blocks) > k
    /\ \E x \in HistoryKeys : \A b \in LastBlocks : Embeddings(x, SeqOf(b)) = {}
    /\ \E i \in 1..Len(ret) :
           ret[i].frequency < OccurrencesFrom(ret[i].sequence, 1)

----------------------------------------------------------------------------
(* The recent and the full-history view.                                   *)

\* What the items of the two picks have in common, per item.
Ranking(items) ==
    [i \in 1..Len(items) |->
        [sequence  |-> items[i].sequence,
         frequency |-> items[i].frequency,
         score     |-> items[i].score]]

\* The history fits the recency window and the frequency table.
HistoryFits ==
    /\ Len(all_blocks) <= k
    /\ Cardinality(HistoryKeys) <= t

\* What pick_from_frequency(n) returns in this state.
FrequencyPick(n) ==
    LET rebuilt == rebuild_and_evict(Symbols, all_blocks, t, current_block_index)
    IN  pick_from_frequency_result(rebuilt.st.number_to_name, rebuilt.table, n)

----------------------------------------------------------------------------
(* The two deques of the recency window.                                   *)

\* C39: after any sequence of add_block calls recent_blocks and
\* recent_subsequences are aligned: they have the same length, and the i-th
\* subsequence list is exactly generate_subsequences of the i-th block
\* tuple.
C39_WindowDequesAligned ==
    /\ Len(recent_blocks) = Len(recent_subsequences)
    /\ \A i \in 1..Len(recent_blocks) :
           recent_subsequences[i] = generate_subsequences(recent_blocks[i], 1)

\* Both deques are full and have dropped a block; their entries differ.
C39_Witness ==
    /\ call.op = "add_block"
    /\ Len(all_blocks) > k
    /\ Len(recent_blocks) = k
    /\ k >= 2
    /\ recent_blocks[1] # recent_blocks[2]
    /\ Len(recent_subsequences[2]) > Len(recent_blocks[2])

----------------------------------------------------------------------------
(* Concurrent calls of update_ema_containers.                              *)

\* No thread is inside update_ema_containers.
Quiescent ==
    \A th \in DOMAIN threads : threads[th].pc \in {"idle", "agent_runner", "done"}

\* The containers after the calls add_block(first), add_block(second) on the
\* instance the server starts with, one call after the other.
SerialOutcome(first, second) ==
    AfterBlocks(Params, FreshContainers, <<first, second>>)

\* C38: when two threads of the server have called update_ema_containers on
\* the shared instance, concurrently or not, the state they leave is the
\* state of one of the two serial orders of their add_block calls: the
\* entries of the recency window are in the order of their blocks in
\* all_blocks, and current_block_index is len(all_blocks) - 1.
C38_ConcurrentUpdatesSerializable ==
    (/\ DOMAIN threads # {}
     /\ Quiescent
     /\ Len(all_blocks) = 2)
    => /\ \/ Containers = SerialOutcome(all_blocks[1], all_blocks[2])
          \/ Containers = SerialOutcome(all_blocks[2], all_blocks[1])
       /\ Len(recent_blocks) = 2
       /\ \A i \in 1..2 : recent_blocks[i] = SeqOf(all_blocks[i])
       /\ current_block_index = Len(all_blocks) - 1

----------------------------------------------------------------------------
(* Using an instance after a partial load.                                 *)

\* The numbers the containers hold: those of the symbol table, of the
\* window and of the keys of the frequency table.
SymbolsHeld ==
    {name_to_number[x] : x \in DOMAIN name_to_number}
    \cup UNION {Range(recent_blocks[i]) : i \in 1..Len(recent_blocks)}
    \cup UNION {UNION {Range(x) : x \in Range(recent_subsequences[i])} :
                    i \in 1..Len(recent_subsequences)}
    \cup UNION {Range(x) : x \in DOMAIN frequency_table}

\* C36: after load_containers from a directory holding any subset of the
\* files one save_containers wrote, the instance stays usable: get_selections
\* and add_block complete without raising, every symbol in the loaded tables
\* maps to a name, and every rebuilt entry has last_usage <=
\* current_block_index.
C36_UsableAfterPartialLoad ==
    /\ call.op \in {"get_selections", "add_block"} => raised = None
    /\ call.op = "load_containers" =>
           \A i \in SymbolsHeld : i \in DOMAIN number_to_name
    /\ call.op \in {"get_selections", "add_block"} =>
           \A x \in DOMAIN frequency_table :
               frequency_table[x].last_usage <= current_block_index

\* The items of saved an instance keeps when it may hold at most bound of
\* them: all of them, or the newest bound, in their order.
Newest(saved, bound) ==
    [i \in 1..(IF Len(saved) <= bound THEN Len(saved) ELSE bound) |->
        saved[i + (IF Len(saved) <= bound THEN 0 ELSE Len(saved) - bound)]]

\* C37: a load, by load_containers or by the constructor, leaves the
\* parameters k, t, nr, nf, ns of the loading instance as they were, whatever
\* config.json holds, and the recency window and the single-tool list it
\* loads are the newest k blocks and the newest 10 * ns tools of the saved
\* ones.
C37_LoadKeepsOwnParameters ==
    [][ ( /\ call'.op \in {"load_containers", "__init__"}
          /\ directory.exists )
        => /\ <<k', t', nr', nf', ns'>> = <<k, t, nr, nf, ns>>
           /\ recent_blocks' = Newest(directory.files["recent_blocks.json"], k)
           /\ Len(recent_blocks') <= k
           /\ recent_single_tools'
                  = Newest(directory.files["recent_single_tools.json"], 10 * ns)
           /\ Len(recent_single_tools') <= 10 * ns ]_vars

\* A load has cut both the saved window and the saved single-tool list down
\* to the bounds of the loading instance, whose parameters are not the ones
\* of config.json.
C37_Witness ==
    /\ call.op = "load_containers"
    /\ ret = TRUE
    /\ directory.files["config.json"] # Params
    /\ Len(directory.files["recent_blocks.json"]) > k
    /\ Len(recent_blocks) = k
    /\ ns > 0
    /\ Len(directory.files["recent_single_tools.json"]) > 10 * ns
    /\ Len(recent_single_tools) = 10 * ns

====
